---------------------------- MODULE Spec2Model ----------------------------
(***************************************************************************)
(* Environment configuration and validation engine of the Flutter guide:   *)
(* EnvironmentService, SecretsManager, EnvironmentValidator and            *)
(* SecurityPolicyManager (lib/core/services/*.dart as printed in the       *)
(* guide).                                                                 *)
(*                                                                         *)
(* A Dart String is a sequence of one-character strings, so toLowerCase,   *)
(* contains, startsWith, int.tryParse and Uri.parse are computed and not   *)
(* assumed.  A Dart Map<String, String> (a LinkedHashMap) is a sequence of *)
(* <<key, value>> entries with distinct keys, in insertion order.          *)
(***************************************************************************)
EXTENDS Integers, Sequences, FiniteSets, TLC

VARIABLES
  isInitialized,    \* EnvironmentService._isInitialized
  testEnvironment,  \* EnvironmentService._testEnvironment: [isNull, map]
  dotenvEnv,        \* the map held by the dotenv package object (dotenv.env)
  dotenvLoaded,     \* whether dotenv.load / dotenv.init has completed once
  pkg,              \* what dotenv.init does (see the dotenv package object below)
  files,            \* the .env files on disk: name -> [exists, content]
  pending,          \* the initialize() call suspended at its await, if any
  initResult,       \* outcome of the last initialize() call that returned
  reads,            \* values a reader obtained since setTestEnvironment returned
  prevConfig,       \* dotenv.env at the moment setTestEnvironment was called
  everInitialized,  \* history: some initialize() has completed successfully
  everSetTest,      \* history: setTestEnvironment() has been called
  harness,          \* the maps the test harness passes to setTestEnvironment
  observed,         \* whether a reader is followed (reads, prevConfig) in this run
  app               \* main(): [pc, log], its position and what it has done so far

vars ==
  <<isInitialized, testEnvironment, dotenvEnv, dotenvLoaded, pkg, files,
    pending, initResult, reads, prevConfig, everInitialized, everSetTest,
    harness, observed, app>>

---------------------------------------------------------------------------
(* Bounds of the model *)

\* most values one reader is followed for
MaxReads == 2

\* most entries of a test environment of the generated family
MaxEntries == 3

---------------------------------------------------------------------------
(* Dart String operations *)

UpperLetters ==
  <<"A","B","C","D","E","F","G","H","I","J","K","L","M","N","O","P","Q","R","S","T","U","V","W","X","Y","Z">>

LowerLetters ==
  <<"a","b","c","d","e","f","g","h","i","j","k","l","m","n","o","p","q","r","s","t","u","v","w","x","y","z">>

Digits ==
  <<"0","1","2","3","4","5","6","7","8","9">>

SeqRange(s) ==
  {s[i] : i \in DOMAIN s}

IndexIn(s, c) ==
  CHOOSE i \in DOMAIN s : s[i] = c

\* the lower-case letter of each upper-case letter
LowerCaseOf ==
  [c \in SeqRange(UpperLetters) |-> LowerLetters[IndexIn(UpperLetters, c)]]

toLowerCaseChar(c) ==
  IF c \in DOMAIN LowerCaseOf THEN LowerCaseOf[c] ELSE c

toLowerCase(s) ==
  [i \in DOMAIN s |-> toLowerCaseChar(s[i])]

contains(s, p) ==
  \E i \in 0..(Len(s) - Len(p)) : SubSeq(s, i + 1, i + Len(p)) = p

startsWith(s, p) ==
  Len(p) <= Len(s) /\ SubSeq(s, 1, Len(p)) = p

\* F applied to the value of v, v being evaluated once (a Dart final local)
With(v, F(_)) ==
  CHOOSE r \in {F(x) : x \in {v}} : TRUE

isEmpty(s) ==
  Len(s) = 0

isNotEmpty(s) ==
  Len(s) > 0

\* List.contains: membership of a value in a list
listContains(list, x) ==
  \E i \in DOMAIN list : list[i] = x

RECURSIVE join(_, _)
join(list, sep) ==
  IF Len(list) = 0 THEN <<>>
  ELSE IF Len(list) = 1 THEN list[1]
  ELSE list[1] \o sep \o join(Tail(list), sep)

---------------------------------------------------------------------------
(* Dart Map<String, String> operations *)

MapKeys(m) ==
  {m[i][1] : i \in DOMAIN m}

containsKey(m, k) ==
  k \in MapKeys(m)

MapGet(m, k) ==
  m[CHOOSE i \in DOMAIN m : m[i][1] = k][2]

\* m[k] ?? d
MapGetOr(m, k, d) ==
  IF containsKey(m, k) THEN MapGet(m, k) ELSE d

\* base.addAll(m): a key already present keeps its place and takes m's value,
\* a new key is appended
MapAddAll(base, m) ==
  [i \in DOMAIN base |-> <<base[i][1], MapGetOr(m, base[i][1], base[i][2])>>]
    \o SelectSeq(m, LAMBDA e : ~containsKey(base, e[1]))

EmptyMap ==
  <<>>

NullMap ==
  [isNull |-> TRUE, map |-> EmptyMap]

SomeMap(m) ==
  [isNull |-> FALSE, map |-> m]

---------------------------------------------------------------------------
(* Configuration keys and the values the guide gives them *)

ENVIRONMENT ==
  <<"E","N","V","I","R","O","N","M","E","N","T">>

API_BASE_URL ==
  <<"A","P","I","_","B","A","S","E","_","U","R","L">>

REQUEST_TIMEOUT_SECONDS ==
  <<"R","E","Q","U","E","S","T","_","T","I","M","E","O","U","T","_","S","E","C","O","N","D","S">>

IS_DEBUG ==
  <<"I","S","_","D","E","B","U","G">>

ENABLE_LOGGING ==
  <<"E","N","A","B","L","E","_","L","O","G","G","I","N","G">>

DEMO_USERNAME ==
  <<"D","E","M","O","_","U","S","E","R","N","A","M","E">>

DEMO_PASSWORD ==
  <<"D","E","M","O","_","P","A","S","S","W","O","R","D">>

ENABLE_WISHLIST ==
  <<"E","N","A","B","L","E","_","W","I","S","H","L","I","S","T">>

ENABLE_CART ==
  <<"E","N","A","B","L","E","_","C","A","R","T">>

REQUIRE_HTTPS ==
  <<"R","E","Q","U","I","R","E","_","H","T","T","P","S">>

MAX_LOGIN_ATTEMPTS ==
  <<"M","A","X","_","L","O","G","I","N","_","A","T","T","E","M","P","T","S">>

SESSION_TIMEOUT_HOURS ==
  <<"S","E","S","S","I","O","N","_","T","I","M","E","O","U","T","_","H","O","U","R","S">>

API_KEY ==
  <<"A","P","I","_","K","E","Y">>

APP_NAME ==
  <<"A","P","P","_","N","A","M","E">>

AUTH_MODE ==
  <<"A","U","T","H","_","M","O","D","E">>

development ==
  <<"d","e","v","e","l","o","p","m","e","n","t">>

staging ==
  <<"s","t","a","g","i","n","g">>

production ==
  <<"p","r","o","d","u","c","t","i","o","n">>

test ==
  <<"t","e","s","t">>

---------------------------------------------------------------------------
(* The dotenv package object (flutter_dotenv, pubspec.yaml of the guide).   *)
(* dotenv.env and dotenv.get raise the package's NotInitializedError until *)
(* a load has completed.  dotenv.init(customMerge: m) is called by the     *)
(* guide and is no member of the package: whether it starts from an empty  *)
(* map or merges m over the entries already held is fixed per run by       *)
(* pkg.initClears.                                                         *)

DotenvThrows ==
  ~dotenvLoaded

\* dotenv.get(key, fallback: defaultValue)
dotenvGet(key, defaultValue) ==
  MapGetOr(dotenvEnv, key, defaultValue)

\* dotenv.init(customMerge: m): the map dotenv holds afterwards
dotenvInit(m) ==
  IF pkg.initClears THEN m ELSE MapAddAll(dotenvEnv, m)

---------------------------------------------------------------------------
(* EnvironmentService: accessors *)

\* _ensureInitialized throws EnvironmentNotInitializedException
ensureInitializedThrows ==
  ~isInitialized /\ testEnvironment.isNull

\* the exception a public accessor (getEnv, getBool, getInt, getDouble,
\* getAllEnvironmentVariables, hasVariable, generateEnvironmentHash) raises,
\* "none" when it returns
getEnvExc ==
  IF ensureInitializedThrows THEN "EnvironmentNotInitializedException"
  ELSE IF DotenvThrows THEN "NotInitializedError"
  ELSE "none"

getEnv(key, defaultValue) ==
  dotenvGet(key, defaultValue)

\* the exception _getEnv and the typed getters built on it raise
privateGetEnvExc ==
  IF testEnvironment.isNull /\ DotenvThrows THEN "NotInitializedError" ELSE "none"

\* a _getEnv that answers the default for an empty value too
privateGetEnvEmptyIsAbsent(key, defaultValue) ==
  LET value == IF ~testEnvironment.isNull
                 THEN MapGetOr(testEnvironment.map, key, defaultValue)
                 ELSE dotenvGet(key, defaultValue)
  IN  IF isEmpty(value) THEN defaultValue ELSE value

privateGetEnv(key, defaultValue) ==
  IF ~testEnvironment.isNull
    THEN MapGetOr(testEnvironment.map, key, defaultValue)
    ELSE dotenvGet(key, defaultValue)

TrueTokens ==
  << <<"t","r","u","e">>, <<"1">>, <<"y","e","s">>, <<"o","n">> >>

getBool(key, defaultValue) ==
  LET value == toLowerCase(getEnv(key, <<>>))
  IN  IF isEmpty(value) THEN defaultValue ELSE listContains(TrueTokens, value)

\* a _getBool that answers the default for every value that is no boolean token
privateGetBoolUnknownIsDefault(key, defaultValue) ==
  LET value == toLowerCase(privateGetEnv(key, <<>>))
  IN  IF listContains(TrueTokens, value) THEN TRUE
      ELSE IF listContains(<< <<"f","a","l","s","e">>, <<"0">>, <<"n","o">>, <<"o","f","f">> >>, value) THEN FALSE
      ELSE defaultValue

privateGetBool(key, defaultValue) ==
  LET value == privateGetEnv(key, <<>>)
  IN  IF isEmpty(value) THEN defaultValue
      ELSE listContains(TrueTokens, toLowerCase(value))

RECURSIVE digitsValue(_)
digitsValue(s) ==
  IF Len(s) = 0 THEN 0
  ELSE 10 * digitsValue(SubSeq(s, 1, Len(s) - 1)) + (IndexIn(Digits, s[Len(s)]) - 1)

HexDigits ==
  <<"0","1","2","3","4","5","6","7","8","9","a","b","c","d","e","f">>

RECURSIVE hexDigitsValue(_)
hexDigitsValue(s) ==
  IF Len(s) = 0 THEN 0
  ELSE 16 * hexDigitsValue(SubSeq(s, 1, Len(s) - 1))
       + (IndexIn(HexDigits, toLowerCaseChar(s[Len(s)])) - 1)

\* an int.tryParse that reads decimal literals only
intTryParseDecimalOnly(s) ==
  LET signed == Len(s) > 0 /\ s[1] \in {"-", "+"}
      body   == IF signed THEN Tail(s) ELSE s
  IN  IF Len(body) > 0 /\ \A i \in DOMAIN body : body[i] \in SeqRange(Digits)
        THEN [isNull |-> FALSE,
              val |-> IF signed /\ s[1] = "-" THEN 0 - digitsValue(body)
                      ELSE digitsValue(body)]
        ELSE [isNull |-> TRUE, val |-> 0]

\* int.tryParse(value) with no radix: an optional sign, then a decimal literal
\* or a hexadecimal literal prefixed 0x; [isNull |-> TRUE] stands for null.
\* Surrounding whitespace and values beyond 64 bits are not modelled.
intTryParse(s) ==
  LET signed  == Len(s) > 0 /\ s[1] \in {"-", "+"}
      body    == IF signed THEN Tail(s) ELSE s
      decimal == Len(body) > 0 /\ \A i \in DOMAIN body : body[i] \in SeqRange(Digits)
      hex     == /\ Len(body) > 2
                 /\ body[1] = "0" /\ body[2] \in {"x", "X"}
                 /\ \A i \in 3..Len(body) :
                      toLowerCaseChar(body[i]) \in SeqRange(HexDigits)
      abs     == IF decimal THEN digitsValue(body)
                 ELSE hexDigitsValue(SubSeq(body, 3, Len(body)))
  IN  IF decimal \/ hex
        THEN [isNull |-> FALSE,
              val |-> IF signed /\ s[1] = "-" THEN 0 - abs ELSE abs]
        ELSE [isNull |-> TRUE, val |-> 0]

getInt(key, defaultValue) ==
  LET value == getEnv(key, <<>>)
  IN  IF isEmpty(value) THEN defaultValue
      ELSE IF intTryParse(value).isNull THEN defaultValue
      ELSE intTryParse(value).val

privateGetInt(key, defaultValue) ==
  LET value == privateGetEnv(key, <<>>)
  IN  IF isEmpty(value) THEN defaultValue
      ELSE IF intTryParse(value).isNull THEN defaultValue
      ELSE intTryParse(value).val

getAllEnvironmentVariables ==
  dotenvEnv

hasVariable(key) ==
  containsKey(dotenvEnv, key)

\* a currentEnvironment that lower-cases the value
currentEnvironmentLowerCased ==
  toLowerCase(privateGetEnv(ENVIRONMENT, development))

\* a currentEnvironment that maps every unrecognised value to development
currentEnvironmentNormalised ==
  IF privateGetEnv(ENVIRONMENT, development) \in {development, staging, production, test}
    THEN privateGetEnv(ENVIRONMENT, development)
    ELSE development

currentEnvironment ==
  privateGetEnv(ENVIRONMENT, development)

isDevelopment ==
  currentEnvironment = development

isStaging ==
  currentEnvironment = staging

isProduction ==
  currentEnvironment = production

isTest ==
  currentEnvironment = test

\* an isDebug whose default is false
isDebugDefaultFalse ==
  privateGetBool(IS_DEBUG, FALSE)

isDebug ==
  privateGetBool(IS_DEBUG, TRUE)

enableLogging ==
  privateGetBool(ENABLE_LOGGING, TRUE)

baseUrl ==
  privateGetEnv(API_BASE_URL, <<"h","t","t","p","s",":","/","/","d","u","m","m","y","j","s","o","n",".","c","o","m">>)

requestTimeoutSeconds ==
  privateGetInt(REQUEST_TIMEOUT_SECONDS, 30)

demoUsername ==
  privateGetEnv(DEMO_USERNAME, <<>>)

demoPassword ==
  privateGetEnv(DEMO_PASSWORD, <<>>)

enableWishlist ==
  privateGetBool(ENABLE_WISHLIST, TRUE)

enableCart ==
  privateGetBool(ENABLE_CART, TRUE)

requireHttps ==
  privateGetBool(REQUIRE_HTTPS, FALSE)

maxLoginAttempts ==
  privateGetInt(MAX_LOGIN_ATTEMPTS, 10)

sessionTimeoutHours ==
  privateGetInt(SESSION_TIMEOUT_HOURS, 24)

RequiredVars ==
  << ENVIRONMENT, API_BASE_URL, REQUEST_TIMEOUT_SECONDS >>

\* a _validateRequiredVariables that accepts a required key with an empty value
missingVarsAbsentOnly(env) ==
  SelectSeq(RequiredVars, LAMBDA v : ~containsKey(env, v))

\* _validateRequiredVariables over the map dotenv holds: the missing names
missingVars(env) ==
  SelectSeq(RequiredVars,
            LAMBDA v : ~containsKey(env, v) \/ isEmpty(MapGet(env, v)))

---------------------------------------------------------------------------
(* EnvironmentService: hash of the non-sensitive entries *)

\* sha256.convert(utf8.encode(s)).toString(): the digest is kept symbolic, equal
\* exactly when the hashed strings are equal (the strings here are ASCII)
sha256(s) ==
  [algorithm |-> "sha256", input |-> s]

EnvironmentServicePatterns ==
  << <<"p","a","s","s","w","o","r","d">>, <<"s","e","c","r","e","t">>, <<"k","e","y">>, <<"t","o","k","e","n">>, <<"c","r","e","d","e","n","t","i","a","l">>,
     <<"a","u","t","h">>, <<"p","r","i","v","a","t","e">>, <<"c","o","n","f","i","d","e","n","t","i","a","l">> >>

\* an EnvironmentService.isSensitiveKey with the pattern list of SecretsManager
EnvironmentService_isSensitiveKeyFivePatterns(key) ==
  LET lowerKey == toLowerCase(key)
  IN  \E i \in 1..5 : contains(lowerKey, EnvironmentServicePatterns[i])

EnvironmentService_isSensitiveKey(key) ==
  LET lowerKey == toLowerCase(key)
  IN  \E i \in DOMAIN EnvironmentServicePatterns :
        contains(lowerKey, EnvironmentServicePatterns[i])

\* entries.map((entry) => '${entry.key}=${entry.value}')
keyValueLines(entries) ==
  [i \in DOMAIN entries |-> entries[i][1] \o <<"=">> \o entries[i][2]]

\* envString of generateEnvironmentHash, for the entries of dotenv.env
envString(entries) ==
  join(keyValueLines(SelectSeq(entries,
         LAMBDA entry : ~EnvironmentService_isSensitiveKey(entry[1]))), <<"|">>)

\* raises what _ensureInitialized and dotenv.env raise (getEnvExc)
generateEnvironmentHash ==
  sha256(envString(dotenvEnv))

---------------------------------------------------------------------------
(* SecretsManager *)

REDACTED ==
  <<"*","*","*","R","E","D","A","C","T","E","D","*","*","*">>

\* _sensitivePatterns
sensitivePatterns ==
  << <<<<"p","a","s","s","w","o","r","d">>, REDACTED>>, <<<<"s","e","c","r","e","t">>, REDACTED>>, <<<<"k","e","y">>, REDACTED>>,
     <<<<"t","o","k","e","n">>, REDACTED>>, <<<<"c","r","e","d","e","n","t","i","a","l">>, REDACTED>> >>

isSensitiveKey(key) ==
  LET lowerKey == toLowerCase(key)
  IN  \E i \in DOMAIN sensitivePatterns :
        contains(lowerKey, sensitivePatterns[i][1])

\* _getPattern: the first pattern the lower-cased key contains, else 'default'
getPattern(key) ==
  LET lowerKey == toLowerCase(key)
  IN  IF isSensitiveKey(key)
        THEN sensitivePatterns[CHOOSE i \in DOMAIN sensitivePatterns :
               /\ contains(lowerKey, sensitivePatterns[i][1])
               /\ \A j \in 1..(i - 1) :
                    ~contains(lowerKey, sensitivePatterns[j][1])][1]
        ELSE <<"d","e","f","a","u","l","t">>

\* a getSecureValue that looks the key itself up in _sensitivePatterns
getSecureValueByExactKey(key, value) ==
  IF containsKey(sensitivePatterns, toLowerCase(key)) THEN REDACTED ELSE value

getSecureValue(key, value) ==
  IF isSensitiveKey(key)
    THEN MapGetOr(sensitivePatterns, getPattern(key), REDACTED)
    ELSE value

\* raises what getAllEnvironmentVariables raises (getEnvExc)
getAllSecureValues ==
  [i \in DOMAIN getAllEnvironmentVariables |->
     << getAllEnvironmentVariables[i][1],
        getSecureValue(getAllEnvironmentVariables[i][1],
                       getAllEnvironmentVariables[i][2]) >>]

\* a generateSecureHash that forgets the .where filter
cleanValuesUnfiltered(envValues) ==
  join(keyValueLines(envValues), <<"|">>)

\* cleanValues of generateSecureHash, for the map envValues
cleanValues(envValues) ==
  join(keyValueLines(SelectSeq(envValues,
         LAMBDA entry : ~isSensitiveKey(entry[1]))), <<"|">>)

\* raises what getAllEnvironmentVariables raises (getEnvExc)
generateSecureHash ==
  sha256(cleanValues(getAllEnvironmentVariables))

---------------------------------------------------------------------------
(* SecurityPolicyManager *)

ProductionSecurityPolicy ==
  [allowDebugLogging |-> FALSE, allowDemoCredentials |-> FALSE,
   requireHttps |-> TRUE, sessionTimeoutHours |-> 1, maxLoginAttempts |-> 3,
   enableStrictValidation |-> TRUE]

DevelopmentSecurityPolicy ==
  [allowDebugLogging |-> TRUE, allowDemoCredentials |-> TRUE,
   requireHttps |-> FALSE, sessionTimeoutHours |-> 24, maxLoginAttempts |-> 10,
   enableStrictValidation |-> FALSE]

\* the guide names StagingSecurityPolicy and does not print it: the staging
\* row of the policy table of the specification
StagingSecurityPolicy ==
  [allowDebugLogging |-> FALSE, allowDemoCredentials |-> TRUE,
   requireHttps |-> TRUE, sessionTimeoutHours |-> 8, maxLoginAttempts |-> 5,
   enableStrictValidation |-> TRUE]

\* a getCurrentPolicy that takes requireHttps, maxLoginAttempts and the
\* session timeout from the configuration
getCurrentPolicyFromConfig ==
  [allowDebugLogging |-> ~isProduction /\ ~isStaging,
   allowDemoCredentials |-> ~isProduction,
   requireHttps |-> requireHttps, sessionTimeoutHours |-> sessionTimeoutHours,
   maxLoginAttempts |-> maxLoginAttempts,
   enableStrictValidation |-> isProduction \/ isStaging]

\* a getCurrentPolicy whose default branch is the production policy
getCurrentPolicyDefaultProduction ==
  CASE currentEnvironment = staging -> StagingSecurityPolicy
    [] currentEnvironment = development -> DevelopmentSecurityPolicy
    [] OTHER -> ProductionSecurityPolicy

\* raises what currentEnvironment raises (privateGetEnvExc)
getCurrentPolicy ==
  CASE currentEnvironment = production -> ProductionSecurityPolicy
    [] currentEnvironment = staging -> StagingSecurityPolicy
    [] OTHER -> DevelopmentSecurityPolicy

---------------------------------------------------------------------------
(* Uri.parse, as far as UrlFormatRule reads its result: hasScheme, scheme,  *)
(* host, or a FormatException.  IPv6 literals are not modelled.             *)

firstIndexOf(s, chars) ==
  IF \E i \in DOMAIN s : s[i] \in chars
    THEN CHOOSE i \in DOMAIN s :
           s[i] \in chars /\ \A j \in 1..(i - 1) : s[j] \notin chars
    ELSE 0

lastIndexOf(s, chars) ==
  IF \E i \in DOMAIN s : s[i] \in chars
    THEN CHOOSE i \in DOMAIN s :
           s[i] \in chars /\ \A j \in (i + 1)..Len(s) : s[j] \notin chars
    ELSE 0

Letters ==
  SeqRange(UpperLetters) \cup SeqRange(LowerLetters)

uriParse(value) ==
  With(firstIndexOf(value, {":", "/", "?", "#"}), LAMBDA stop :
    LET colonFirst == stop > 0 /\ value[stop] = ":"
        schemeRaw  == IF colonFirst THEN SubSeq(value, 1, stop - 1) ELSE <<>>
        schemeOk   == /\ Len(schemeRaw) > 0
                      /\ schemeRaw[1] \in Letters
                      /\ \A i \in DOMAIN schemeRaw :
                           schemeRaw[i] \in Letters \cup SeqRange(Digits) \cup {"+", "-", "."}
    IN  With(IF colonFirst THEN SubSeq(value, stop + 1, Len(value)) ELSE value,
             LAMBDA rest :
        With(IF startsWith(rest, <<"/", "/">>) THEN SubSeq(rest, 3, Len(rest)) ELSE <<>>,
             LAMBDA afterAuth :
        With(firstIndexOf(afterAuth, {"/", "?", "#"}), LAMBDA authEnd :
        With(IF authEnd = 0 THEN afterAuth ELSE SubSeq(afterAuth, 1, authEnd - 1),
             LAMBDA authority :
        With(SubSeq(authority, lastIndexOf(authority, {"@"}) + 1, Len(authority)),
             LAMBDA hostPort :
        With(lastIndexOf(hostPort, {":"}), LAMBDA colon :
          LET hostRaw == IF colon = 0 THEN hostPort ELSE SubSeq(hostPort, 1, colon - 1)
              port    == IF colon = 0 THEN <<>>
                         ELSE SubSeq(hostPort, colon + 1, Len(hostPort))
          IN  [throws    |-> \/ colonFirst /\ ~schemeOk
                             \/ \E i \in DOMAIN port : port[i] \notin SeqRange(Digits),
               hasScheme |-> colonFirst /\ schemeOk,
               scheme    |-> toLowerCase(schemeRaw),
               host      |-> toLowerCase(hostRaw)])))))))

---------------------------------------------------------------------------
(* EnvironmentValidator and its rules.  Every rule reads through getEnv, so *)
(* a rule, and validate() with it, raises what getEnv raises (getEnvExc).   *)

ValidationResult(isValid, errors, warnings) ==
  [isValid |-> isValid, errors |-> errors, warnings |-> warnings]

RequiredKeyRule(key) ==
  LET value == getEnv(key, <<>>)
  IN  ValidationResult(isNotEmpty(value),
        IF isEmpty(value)
          THEN << <<"R","e","q","u","i","r","e","d"," ","e","n","v","i","r","o","n","m","e","n","t"," ","v","a","r","i","a","b","l","e"," ">> \o key \o <<" ","i","s"," ","m","i","s","s","i","n","g">> >>
          ELSE <<>>,
        <<>>)

EnumRule(key, allowedValues) ==
  LET value   == getEnv(key, <<>>)
      isValid == listContains(allowedValues, value)
  IN  IF isEmpty(value) THEN ValidationResult(FALSE, <<>>, <<>>)
      ELSE ValidationResult(isValid,
             IF isValid THEN <<>>
             ELSE << key \o <<" ","m","u","s","t"," ","b","e"," ","o","n","e"," ","o","f",":"," ">> \o join(allowedValues, <<","," ">>)
                       \o <<"."," ","G","o","t",":"," ">> \o value >>,
             <<>>)

\* a UrlFormatRule that accepts https only
UrlFormatRuleHttpsOnly(key) ==
  With(getEnv(key, <<>>), LAMBDA value :
    With(uriParse(value), LAMBDA uri :
      LET isValid == ~uri.throws /\ uri.hasScheme /\ uri.scheme = <<"h","t","t","p","s">>
                     /\ isNotEmpty(uri.host)
      IN  IF isEmpty(value) THEN ValidationResult(FALSE, <<>>, <<>>)
          ELSE ValidationResult(isValid,
                 IF isValid THEN <<>>
                 ELSE << <<"I","n","v","a","l","i","d"," ","U","R","L"," ","f","o","r","m","a","t"," ","f","o","r"," ">> \o key \o <<":"," ">> \o value >>,
                 <<>>)))

UrlFormatRule(key) ==
  With(getEnv(key, <<>>), LAMBDA value :
    With(uriParse(value), LAMBDA uri :
      LET isValid == /\ ~uri.throws
                     /\ uri.hasScheme
                     /\ (uri.scheme = <<"h","t","t","p">> \/ uri.scheme = <<"h","t","t","p","s">>)
                     /\ isNotEmpty(uri.host)
      IN  IF isEmpty(value) THEN ValidationResult(FALSE, <<>>, <<>>)
          ELSE ValidationResult(isValid,
                 IF isValid THEN <<>>
                 ELSE << <<"I","n","v","a","l","i","d"," ","U","R","L"," ","f","o","r","m","a","t"," ","f","o","r"," ">> \o key \o <<":"," ">> \o value >>,
                 <<>>)))

\* a PositiveIntegerRule that accepts every integer from 0 up
PositiveIntegerRuleFromZero(key) ==
  LET value    == getEnv(key, <<>>)
      intValue == intTryParse(value)
      isValid  == ~intValue.isNull /\ intValue.val >= 0
  IN  IF isEmpty(value) THEN ValidationResult(FALSE, <<>>, <<>>)
      ELSE ValidationResult(isValid,
             IF isValid THEN <<>>
             ELSE << key \o <<" ","m","u","s","t"," ","b","e"," ","a"," ","p","o","s","i","t","i","v","e"," ","i","n","t","e","g","e","r","."," ","G","o","t",":"," ">> \o value >>,
             <<>>)

PositiveIntegerRule(key) ==
  LET value    == getEnv(key, <<>>)
      intValue == intTryParse(value)
      isValid  == ~intValue.isNull /\ intValue.val > 0
  IN  IF isEmpty(value) THEN ValidationResult(FALSE, <<>>, <<>>)
      ELSE ValidationResult(isValid,
             IF isValid THEN <<>>
             ELSE << key \o <<" ","m","u","s","t"," ","b","e"," ","a"," ","p","o","s","i","t","i","v","e"," ","i","n","t","e","g","e","r","."," ","G","o","t",":"," ">> \o value >>,
             <<>>)

BooleanRule(key) ==
  LET value       == getEnv(key, <<>>)
      validValues == << <<"t","r","u","e">>, <<"f","a","l","s","e">>, <<"1">>, <<"0">>, <<"y","e","s">>, <<"n","o">>, <<"o","n">>, <<"o","f","f">> >>
      isValid     == listContains(validValues, toLowerCase(value))
  IN  IF isEmpty(value) THEN ValidationResult(FALSE, <<>>, <<>>)
      ELSE ValidationResult(isValid,
             IF isValid THEN <<>>
             ELSE << key \o <<" ","m","u","s","t"," ","b","e"," ","a"," ","b","o","o","l","e","a","n"," ","v","a","l","u","e","."," ","G","o","t",":"," ">> \o value >>,
             <<>>)

\* _validationRules, each rule already applied
validationRules ==
  << RequiredKeyRule(ENVIRONMENT),
     EnumRule(ENVIRONMENT, <<development, staging, production, test>>),
     RequiredKeyRule(API_BASE_URL),
     UrlFormatRule(API_BASE_URL),
     PositiveIntegerRule(REQUEST_TIMEOUT_SECONDS),
     BooleanRule(IS_DEBUG),
     BooleanRule(ENABLE_LOGGING),
     BooleanRule(ENABLE_WISHLIST),
     BooleanRule(ENABLE_CART) >>

\* a loop that stops collecting at the first rule that fails
RECURSIVE ruleErrorsShortCircuit(_, _)
ruleErrorsShortCircuit(rules, n) ==
  IF n = 0 THEN <<>>
  ELSE IF Len(ruleErrorsShortCircuit(rules, n - 1)) > 0
         THEN ruleErrorsShortCircuit(rules, n - 1)
  ELSE rules[n].errors

\* the errors the loop of validate() has collected after the first n rules
RECURSIVE ruleErrors(_, _)
ruleErrors(rules, n) ==
  IF n = 0 THEN <<>>
  ELSE ruleErrors(rules, n - 1) \o
       (IF ~rules[n].isValid THEN rules[n].errors ELSE <<>>)

\* the warnings the loop of validate() has collected after the first n rules
RECURSIVE ruleWarnings(_, _)
ruleWarnings(rules, n) ==
  IF n = 0 THEN <<>>
  ELSE ruleWarnings(rules, n - 1) \o rules[n].warnings

\* a _validateSecuritySettings that knows one demo user name only
securityErrorsOneDemoUser ==
  IF currentEnvironment = production
    THEN (IF isDebug
            THEN << <<"D","e","b","u","g"," ","m","o","d","e"," ","s","h","o","u","l","d"," ","b","e"," ","d","i","s","a","b","l","e","d"," ","i","n"," ","p","r","o","d","u","c","t","i","o","n">> >> ELSE <<>>)
         \o (IF demoUsername = <<"k","m","i","n","c","h","e","l","l","e">>
               THEN << <<"D","e","m","o"," ","c","r","e","d","e","n","t","i","a","l","s"," ","s","h","o","u","l","d"," ","n","o","t"," ","b","e"," ","u","s","e","d"," ","i","n"," ","p","r","o","d","u","c","t","i","o","n">> >>
               ELSE <<>>)
         \o (IF ~requireHttps /\ ~contains(baseUrl, <<"l","o","c","a","l","h","o","s","t">>)
               THEN << <<"H","T","T","P","S"," ","s","h","o","u","l","d"," ","b","e"," ","r","e","q","u","i","r","e","d"," ","i","n"," ","p","r","o","d","u","c","t","i","o","n">> >> ELSE <<>>)
    ELSE <<>>

\* a _validateSecuritySettings that leaves HTTPS to the warnings
securityErrorsHttpsAdvisory ==
  IF currentEnvironment = production
    THEN (IF isDebug
            THEN << <<"D","e","b","u","g"," ","m","o","d","e"," ","s","h","o","u","l","d"," ","b","e"," ","d","i","s","a","b","l","e","d"," ","i","n"," ","p","r","o","d","u","c","t","i","o","n">> >> ELSE <<>>)
         \o (IF isNotEmpty(demoUsername) \/ isNotEmpty(demoPassword)
               THEN << <<"D","e","m","o"," ","c","r","e","d","e","n","t","i","a","l","s"," ","s","h","o","u","l","d"," ","n","o","t"," ","b","e"," ","u","s","e","d"," ","i","n"," ","p","r","o","d","u","c","t","i","o","n">> >>
               ELSE <<>>)
    ELSE <<>>

\* what _validateSecuritySettings adds to errors
securityErrors ==
  IF currentEnvironment = production
    THEN (IF isDebug
            THEN << <<"D","e","b","u","g"," ","m","o","d","e"," ","s","h","o","u","l","d"," ","b","e"," ","d","i","s","a","b","l","e","d"," ","i","n"," ","p","r","o","d","u","c","t","i","o","n">> >> ELSE <<>>)
         \o (IF isNotEmpty(demoUsername) \/ isNotEmpty(demoPassword)
               THEN << <<"D","e","m","o"," ","c","r","e","d","e","n","t","i","a","l","s"," ","s","h","o","u","l","d"," ","n","o","t"," ","b","e"," ","u","s","e","d"," ","i","n"," ","p","r","o","d","u","c","t","i","o","n">> >>
               ELSE <<>>)
         \o (IF ~requireHttps /\ ~contains(baseUrl, <<"l","o","c","a","l","h","o","s","t">>)
               THEN << <<"H","T","T","P","S"," ","s","h","o","u","l","d"," ","b","e"," ","r","e","q","u","i","r","e","d"," ","i","n"," ","p","r","o","d","u","c","t","i","o","n">> >> ELSE <<>>)
    ELSE <<>>

\* a _validateSecuritySettings whose protocol check is a production check
securityWarningsProductionOnly ==
  IF currentEnvironment = production
    THEN (IF sessionTimeoutHours > 8
            THEN << <<"S","e","s","s","i","o","n"," ","t","i","m","e","o","u","t"," ","s","h","o","u","l","d"," ","b","e"," ","s","h","o","r","t","e","r"," ","i","n"," ","p","r","o","d","u","c","t","i","o","n">> >> ELSE <<>>)
         \o (IF startsWith(baseUrl, <<"h","t","t","p",":","/","/">>) /\ ~contains(baseUrl, <<"l","o","c","a","l","h","o","s","t">>)
               THEN << <<"U","s","i","n","g"," ","H","T","T","P"," ","i","n","s","t","e","a","d"," ","o","f"," ","H","T","T","P","S"," ","f","o","r"," ","A","P","I"," ","c","o","m","m","u","n","i","c","a","t","i","o","n">> >>
               ELSE <<>>)
         \o (IF enableLogging
               THEN << <<"V","e","r","b","o","s","e"," ","l","o","g","g","i","n","g"," ","s","h","o","u","l","d"," ","b","e"," ","d","i","s","a","b","l","e","d"," ","i","n"," ","p","r","o","d","u","c","t","i","o","n">> >> ELSE <<>>)
    ELSE <<>>

\* what _validateSecuritySettings adds to warnings
securityWarnings ==
  (IF currentEnvironment = production /\ sessionTimeoutHours > 8
     THEN << <<"S","e","s","s","i","o","n"," ","t","i","m","e","o","u","t"," ","s","h","o","u","l","d"," ","b","e"," ","s","h","o","r","t","e","r"," ","i","n"," ","p","r","o","d","u","c","t","i","o","n">> >> ELSE <<>>)
  \o (IF startsWith(baseUrl, <<"h","t","t","p",":","/","/">>) /\ ~contains(baseUrl, <<"l","o","c","a","l","h","o","s","t">>)
        THEN << <<"U","s","i","n","g"," ","H","T","T","P"," ","i","n","s","t","e","a","d"," ","o","f"," ","H","T","T","P","S"," ","f","o","r"," ","A","P","I"," ","c","o","m","m","u","n","i","c","a","t","i","o","n">> >> ELSE <<>>)
  \o (IF isProduction /\ enableLogging
        THEN << <<"V","e","r","b","o","s","e"," ","l","o","g","g","i","n","g"," ","s","h","o","u","l","d"," ","b","e"," ","d","i","s","a","b","l","e","d"," ","i","n"," ","p","r","o","d","u","c","t","i","o","n">> >> ELSE <<>>)

\* the exception validate() raises, "none" when it returns a ValidationResult
validateExc ==
  getEnvExc

validate ==
  With(validationRules, LAMBDA rules :
    With(ruleErrors(rules, Len(rules)) \o securityErrors, LAMBDA errors :
      ValidationResult(Len(errors) = 0, errors,
                       ruleWarnings(rules, Len(rules)) \o securityWarnings)))

---------------------------------------------------------------------------
(* The .env files of the guide and the maps its tests install *)

\* .env and .env.example (the guide prints the same content for both)
DevFile ==
  << <<ENVIRONMENT, development>>, <<IS_DEBUG, <<"t","r","u","e">>>>,
     <<ENABLE_LOGGING, <<"t","r","u","e">>>>, <<API_BASE_URL, <<"h","t","t","p","s",":","/","/","d","u","m","m","y","j","s","o","n",".","c","o","m">>>>,
     <<REQUEST_TIMEOUT_SECONDS, <<"3","0">>>>, <<DEMO_USERNAME, <<"k","m","i","n","c","h","e","l","l","e">>>>,
     <<DEMO_PASSWORD, <<"0","l","e","l","p","l","R">>>>, <<ENABLE_WISHLIST, <<"t","r","u","e">>>>,
     <<ENABLE_CART, <<"t","r","u","e">>>>, <<REQUIRE_HTTPS, <<"f","a","l","s","e">>>>,
     <<MAX_LOGIN_ATTEMPTS, <<"1","0">>>>, <<SESSION_TIMEOUT_HOURS, <<"2","4">>>> >>

\* .env.production
ProdFile ==
  << <<ENVIRONMENT, production>>, <<IS_DEBUG, <<"f","a","l","s","e">>>>,
     <<ENABLE_LOGGING, <<"f","a","l","s","e">>>>, <<API_BASE_URL, <<"h","t","t","p","s",":","/","/","a","p","i",".","y","o","u","r","d","o","m","a","i","n",".","c","o","m">>>>,
     <<REQUEST_TIMEOUT_SECONDS, <<"1","0">>>>, <<DEMO_USERNAME, <<>> >>,
     <<DEMO_PASSWORD, <<>> >>, <<ENABLE_WISHLIST, <<"t","r","u","e">>>>,
     <<ENABLE_CART, <<"t","r","u","e">>>>, <<REQUIRE_HTTPS, <<"t","r","u","e">>>>,
     <<MAX_LOGIN_ATTEMPTS, <<"3">>>>, <<SESSION_TIMEOUT_HOURS, <<"1">>>> >>

\* a .env that lacks REQUEST_TIMEOUT_SECONDS, one of requiredVars
IncompleteFile ==
  << <<ENVIRONMENT, staging>>, <<API_BASE_URL, <<"h","t","t","p","s",":","/","/","s","t","a","g","i","n","g","-","a","p","i",".","y","o","u","r","d","o","m","a","i","n",".","c","o","m">>>>,
     <<DEMO_PASSWORD, <<"s","t","a","g","i","n","g","_","p","a","s","s">>>> >>

\* setUp of 'EnvironmentService Tests'
TestEnvOfSetUp ==
  << <<ENVIRONMENT, test>>, <<API_BASE_URL, <<"h","t","t","p","s",":","/","/","t","e","s","t","-","a","p","i",".","e","x","a","m","p","l","e",".","c","o","m">>>>,
     <<REQUEST_TIMEOUT_SECONDS, <<"3","0">>>>, <<IS_DEBUG, <<"t","r","u","e">>>>,
     <<ENABLE_LOGGING, <<"f","a","l","s","e">>>>, <<DEMO_USERNAME, <<"t","e","s","t","_","u","s","e","r">>>>,
     <<DEMO_PASSWORD, <<"t","e","s","t","_","p","a","s","s">>>>, <<ENABLE_WISHLIST, <<"t","r","u","e">>>>,
     <<ENABLE_CART, <<"t","r","u","e">>>> >>

\* 'should detect production security issues'
TestEnvProductionIssues ==
  << <<ENVIRONMENT, production>>, <<API_BASE_URL, <<"h","t","t","p","s",":","/","/","a","p","i",".","e","x","a","m","p","l","e",".","c","o","m">>>>,
     <<REQUEST_TIMEOUT_SECONDS, <<"1","0">>>>, <<IS_DEBUG, <<"t","r","u","e">>>>,
     <<DEMO_USERNAME, <<"u","s","e","r">>>>, <<ENABLE_LOGGING, <<"t","r","u","e">>>> >>

\* 'should handle initialization error gracefully'
TestEnvInvalid ==
  << <<ENVIRONMENT, <<"i","n","v","a","l","i","d">>>> >>

TestPool ==
  {TestEnvOfSetUp, TestEnvProductionIssues, TestEnvInvalid}

NoFile ==
  [exists |-> FALSE, content |-> EmptyMap]

FileOf(content) ==
  [exists |-> TRUE, content |-> content]

\* initialize(fileName: ...) is called with no name (".env") or with this name
FileNames ==
  {".env", ".env.production"}

FileSystems ==
  { [n \in {".env", ".env.production", ".env.example"} |->
       CASE n = ".env" -> a
         [] n = ".env.production" -> b
         [] OTHER -> c]
    : a \in {NoFile, FileOf(IncompleteFile)},
      b \in {NoFile, FileOf(ProdFile)},
      c \in {NoFile, FileOf(DevFile)} }

---------------------------------------------------------------------------
(* EnvironmentService: initialize, setTestEnvironment, clearTestEnvironment *)

Idle ==
  [pc |-> "idle", useTest |-> FALSE, customMerge |-> EmptyMap, fileToLoad |-> ".env"]

\* an initialize() without its first line
initializeReloads ==
  FALSE

\* if (_isInitialized && _testEnvironment == null) return;
initializeReturnsEarly ==
  isInitialized /\ testEnvironment.isNull

\* initialize({fileName}) up to its await: the early return and the choice
\* between the test environment and fileToLoad.  One call is followed at a
\* time.
InitializeCall(fileName) ==
  /\ pending.pc = "idle"
  /\ IF initializeReturnsEarly
       THEN /\ initResult' = "returned"
            /\ UNCHANGED pending
       ELSE /\ UNCHANGED initResult
            /\ pending' =
                 [pc |-> "awaiting",
                  useTest |-> ~testEnvironment.isNull,
                  customMerge |-> testEnvironment.map,
                  fileToLoad |-> fileName]
  /\ UNCHANGED <<isInitialized, testEnvironment, dotenvEnv, dotenvLoaded, pkg,
                 files, reads, prevConfig, everInitialized, everSetTest, harness, observed, app>>

\* an initialize() that loads the named file only
loadedFileNoFallback(fileToLoad) ==
  fileToLoad

\* the file dotenv.load is called with: fileToLoad if it exists, otherwise
\* .env.example
loadedFile(fileToLoad) ==
  IF files[fileToLoad].exists THEN fileToLoad ELSE ".env.example"

\* initialize() from the completion of dotenv.init / dotenv.load on:
\* _validateRequiredVariables, _isInitialized = true, or the catch block
\* (_validateEnvironmentSpecific only prints)
InitializeComplete ==
  /\ pending.pc = "awaiting"
  /\ pending' = Idle
  /\ LET source    == loadedFile(pending.fileToLoad)
         loadFails == ~pending.useTest /\ ~files[source].exists
         loaded    == IF pending.useTest THEN dotenvInit(pending.customMerge)
                      ELSE files[source].content
     IN  IF loadFails
           THEN /\ initResult' = "EnvironmentInitializationException"
                /\ UNCHANGED <<dotenvEnv, dotenvLoaded, isInitialized, everInitialized>>
           ELSE /\ dotenvEnv' = loaded
                /\ dotenvLoaded' = TRUE
                /\ IF Len(missingVars(loaded)) > 0
                     THEN /\ initResult' = "EnvironmentInitializationException"
                          /\ UNCHANGED <<isInitialized, everInitialized>>
                     ELSE /\ initResult' = "initialized"
                          /\ isInitialized' = TRUE
                          /\ everInitialized' = TRUE
  /\ UNCHANGED <<testEnvironment, pkg, files, reads, prevConfig, everSetTest, harness, observed, app>>

SetTestEnvironment(testEnv) ==
  /\ testEnvironment' = SomeMap(testEnv)
  /\ isInitialized' = FALSE
  /\ prevConfig' = IF observed THEN dotenvEnv ELSE prevConfig
  /\ reads' = {}
  /\ everSetTest' = TRUE
  /\ UNCHANGED <<dotenvEnv, dotenvLoaded, pkg, files, pending, initResult,
                 everInitialized, harness, observed, app>>

ClearTestEnvironment ==
  /\ testEnvironment' = NullMap
  /\ isInitialized' = FALSE
  /\ reads' = {}
  /\ UNCHANGED <<dotenvEnv, dotenvLoaded, pkg, files, pending, initResult,
                 prevConfig, everInitialized, everSetTest, harness, observed, app>>

---------------------------------------------------------------------------
(* A reader of the configuration, running between the steps above *)

\* currentEnvironment, isProduction, ... / baseUrl
TypedKeys ==
  {ENVIRONMENT, API_BASE_URL}

\* getEnv(key), as RequiredKeyRule and UrlFormatRule call it
GetEnvKeys ==
  {ENVIRONMENT, API_BASE_URL}

\* the default of the typed getter of a key
TypedDefault(key) ==
  IF key = ENVIRONMENT THEN development ELSE <<"h","t","t","p","s",":","/","/","d","u","m","m","y","j","s","o","n",".","c","o","m">>

ReadTyped(key) ==
  /\ observed
  /\ ~testEnvironment.isNull
  /\ Cardinality(reads) < MaxReads
  /\ privateGetEnvExc = "none"
  /\ reads' = reads \cup
       {[via |-> "typed", key |-> key, def |-> TypedDefault(key),
         val |-> IF key = ENVIRONMENT THEN currentEnvironment ELSE baseUrl]}
  /\ UNCHANGED <<isInitialized, testEnvironment, dotenvEnv, dotenvLoaded, pkg,
                 files, pending, initResult, prevConfig, everInitialized,
                 everSetTest, harness, observed, app>>

ReadGetEnv(key) ==
  /\ observed
  /\ ~testEnvironment.isNull
  /\ Cardinality(reads) < MaxReads
  /\ getEnvExc = "none"
  /\ reads' = reads \cup
       {[via |-> "getEnv", key |-> key, def |-> <<>>, val |-> getEnv(key, <<>>)]}
  /\ UNCHANGED <<isInitialized, testEnvironment, dotenvEnv, dotenvLoaded, pkg,
                 files, pending, initResult, prevConfig, everInitialized,
                 everSetTest, harness, observed, app>>

---------------------------------------------------------------------------
(* Specification: the service under its test harness and its start-up code *)

InitService ==
  /\ isInitialized = FALSE
  /\ testEnvironment = NullMap
  /\ dotenvEnv = EmptyMap
  /\ dotenvLoaded = FALSE
  /\ pkg \in [initClears : BOOLEAN]
  /\ pending = Idle
  /\ initResult = "none"
  /\ reads = {}
  /\ prevConfig = EmptyMap
  /\ everInitialized = FALSE
  /\ everSetTest = FALSE
  /\ app = [pc |-> "start", log |-> <<>>]

Init ==
  /\ InitService
  /\ files \in FileSystems
  /\ harness = TestPool
  /\ observed = FALSE

Next ==
  \/ \E fileName \in FileNames : InitializeCall(fileName)
  \/ InitializeComplete
  \/ \E testEnv \in harness : SetTestEnvironment(testEnv)
  \/ ClearTestEnvironment

Spec ==
  Init /\ [][Next]_vars

---------------------------------------------------------------------------
(* Specification: the same service with a reader running between the steps, *)
(* on a disk that holds .env.example and .env.production                    *)

ReaderFiles ==
  [n \in {".env", ".env.production", ".env.example"} |->
     CASE n = ".env" -> NoFile
       [] n = ".env.production" -> FileOf(ProdFile)
       [] OTHER -> FileOf(DevFile)]

InitReader ==
  /\ InitService
  /\ files = ReaderFiles
  /\ harness = TestPool
  /\ observed = TRUE

NextReader ==
  \/ \E fileName \in FileNames : InitializeCall(fileName)
  \/ InitializeComplete
  \/ \E testEnv \in harness : SetTestEnvironment(testEnv)
  \/ ClearTestEnvironment
  \/ \E key \in TypedKeys : ReadTyped(key)
  \/ \E key \in GetEnvKeys : ReadGetEnv(key)

SpecReader ==
  InitReader /\ [][NextReader]_vars

---------------------------------------------------------------------------
(* Specification: one configuration per run, drawn from a generated family, *)
(* written to .env and installed by the test harness                        *)

FamilyKeys ==
  << ENVIRONMENT, IS_DEBUG, DEMO_USERNAME, DEMO_PASSWORD, REQUIRE_HTTPS,
     API_BASE_URL, REQUEST_TIMEOUT_SECONDS, API_KEY, APP_NAME,
     SESSION_TIMEOUT_HOURS, MAX_LOGIN_ATTEMPTS, ENABLE_LOGGING, AUTH_MODE >>

FamilyValues ==
  << {production, <<"P","r","o","d","u","c","t","i","o","n">>, staging, development, test, <<"i","n","v","a","l","i","d">>, <<>>},
     {<<"t","r","u","e">>, <<"T","R","U","E">>, <<"y","e","s">>, <<"f","a","l","s","e">>, <<"m","a","y","b","e">>, <<>>},
     {<<"u","s","e","r">>, <<>>},
     {<<"p","a","s","s">>},
     {<<"t","r","u","e">>, <<"f","a","l","s","e">>},
     {<<"h","t","t","p","s",":","/","/","a","p","i",".","e","x","a","m","p","l","e",".","c","o","m">>, <<"h","t","t","p",":","/","/","a","p","i",".","e","x","a","m","p","l","e",".","c","o","m">>,
      <<"h","t","t","p",":","/","/","l","o","c","a","l","h","o","s","t",":","8","0","8","0">>, <<"i","n","v","a","l","i","d","-","u","r","l">>, <<>>},
     {<<"3","0">>, <<"0">>, <<"-","5">>, <<"a","b","c">>, <<"0","x","1","F">>, <<>>},
     {<<"s","k","_","l","i","v","e">>, <<"s","k","_","t","e","s","t">>},
     {<<"s","h","o","p">>},
     {<<"1">>, <<"1","2">>},
     {<<"3">>},
     {<<"t","r","u","e">>, <<"f","a","l","s","e">>},
     {<<"b","a","s","i","c">>} >>

\* the maps over FamilyKeys[i..] with at most n entries, in the order of FamilyKeys
RECURSIVE ConfigsFrom(_, _)
ConfigsFrom(i, n) ==
  IF i > Len(FamilyKeys) \/ n = 0 THEN {EmptyMap}
  ELSE ConfigsFrom(i + 1, n) \cup
       { << <<FamilyKeys[i], v>> >> \o c :
           v \in FamilyValues[i], c \in ConfigsFrom(i + 1, n - 1) }

\* the maps that hold every required key, with and without the optional keys
\* the security checks read
CompleteConfigs ==
  { << <<ENVIRONMENT, e>>, <<API_BASE_URL, u>>, <<REQUEST_TIMEOUT_SECONDS, <<"3","0">>>> >>
      \o d \o h \o n \o l :
      e \in {production, staging, development, test},
      u \in {<<"h","t","t","p","s",":","/","/","a","p","i",".","e","x","a","m","p","l","e",".","c","o","m">>, <<"h","t","t","p",":","/","/","a","p","i",".","e","x","a","m","p","l","e",".","c","o","m">>,
             <<"h","t","t","p",":","/","/","l","o","c","a","l","h","o","s","t",":","8","0","8","0">>},
      d \in {<<>>, << <<IS_DEBUG, <<"f","a","l","s","e">>>> >>, << <<IS_DEBUG, <<"t","r","u","e">>>> >>,
             << <<IS_DEBUG, <<>> >> >>},
      h \in {<<>>, << <<REQUIRE_HTTPS, <<"t","r","u","e">>>> >>, << <<REQUIRE_HTTPS, <<"f","a","l","s","e">>>> >>},
      n \in {<<>>, << <<DEMO_USERNAME, <<>> >> >>, << <<DEMO_USERNAME, <<"u","s","e","r">>>> >>},
      l \in {<<>>, << <<ENABLE_LOGGING, <<"o","f","f">>>> >>, << <<ENABLE_LOGGING, <<"t","r","u","e">>>> >>,
             << <<SESSION_TIMEOUT_HOURS, <<"1","2">>>> >>} }

Family ==
  ConfigsFrom(1, MaxEntries) \cup CompleteConfigs

InitConfig ==
  /\ InitService
  /\ \E m \in Family :
       /\ files = [n \in {".env", ".env.production", ".env.example"} |->
                     IF n = ".env" THEN FileOf(m) ELSE NoFile]
       /\ harness = {m}
  /\ observed = FALSE

NextConfig ==
  \/ InitializeCall(".env")
  \/ InitializeComplete
  \/ \E testEnv \in harness : SetTestEnvironment(testEnv)
  \/ ClearTestEnvironment

SpecConfig ==
  InitConfig /\ [][NextConfig]_vars

---------------------------------------------------------------------------
(* Specification: main(), from its first line to runApp                     *)

\* await EnvironmentService.initialize(), up to the await inside it
mainInitialize ==
  /\ app.pc = "start"
  /\ initResult = "none"
  /\ InitializeCall(".env")

\* the initialize() that main() awaits completes
mainAwait ==
  /\ app.pc = "start"
  /\ InitializeComplete

\* a main() that starts the application whatever validate() returned
validationFailedInProductionIgnored(validation) ==
  FALSE

\* if (!validation.isValid) { ... if (EnvironmentService.isProduction) throw
validationFailedInProduction(validation) ==
  ~validation.isValid /\ isProduction

\* main() from the return of initialize() to the decision to start the
\* application: an exception of initialize(), of validate() or of the
\* production check enters the catch block
mainValidate ==
  /\ app.pc = "start"
  /\ pending.pc = "idle"
  /\ initResult # "none"
  /\ app' =
       IF initResult = "EnvironmentInitializationException"
         THEN [pc |-> "catch", log |-> app.log]
       ELSE IF validateExc # "none"
         THEN [pc |-> "catch", log |-> app.log]
       ELSE [pc  |-> IF validationFailedInProduction(validate) THEN "catch"
                     ELSE "runApp",
             log |-> Append(app.log, "validate")]
  /\ UNCHANGED <<isInitialized, testEnvironment, dotenvEnv, dotenvLoaded, pkg,
                 files, pending, initResult, reads, prevConfig, everInitialized,
                 everSetTest, harness, observed>>

\* the warnings, _logEnvironmentInfo and runApp(ProviderScope(child: MyApp()))
mainRunApp ==
  /\ app.pc = "runApp"
  /\ app' = [pc |-> "done", log |-> Append(app.log, "MyApp")]
  /\ UNCHANGED <<isInitialized, testEnvironment, dotenvEnv, dotenvLoaded, pkg,
                 files, pending, initResult, reads, prevConfig, everInitialized,
                 everSetTest, harness, observed>>

\* the catch block: runApp(MaterialApp(home: ErrorScreen(...)))
mainCatch ==
  /\ app.pc = "catch"
  /\ app' = [pc |-> "done", log |-> Append(app.log, "ErrorScreen")]
  /\ UNCHANGED <<isInitialized, testEnvironment, dotenvEnv, dotenvLoaded, pkg,
                 files, pending, initResult, reads, prevConfig, everInitialized,
                 everSetTest, harness, observed>>

\* the .env files main() may find: none, the files of the guide, a file
\* without a required variable, and complete files of every environment
MainFiles ==
  {NoFile} \cup
  {FileOf(m) : m \in CompleteConfigs \cup {DevFile, ProdFile, IncompleteFile}}

InitMain ==
  /\ InitService
  /\ \E a \in MainFiles, c \in {NoFile, FileOf(DevFile)} :
       files = [n \in {".env", ".env.production", ".env.example"} |->
                  CASE n = ".env" -> a
                    [] n = ".env.production" -> NoFile
                    [] OTHER -> c]
  /\ harness = {}
  /\ observed = FALSE

NextMain ==
  \/ mainInitialize
  \/ mainAwait
  \/ mainValidate
  \/ mainRunApp
  \/ mainCatch

SpecMain ==
  InitMain /\ [][NextMain]_vars

---------------------------------------------------------------------------
(* Claims *)

\* the map _getEnv answers from: the test environment when one is set,
\* the map of dotenv otherwise
ActiveConfig ==
  IF ~testEnvironment.isNull THEN testEnvironment.map ELSE dotenvEnv

NotInitializedErrors ==
  {"EnvironmentNotInitializedException", "NotInitializedError"}

\* C1: as long as no initialize() has completed successfully and
\* setTestEnvironment() has not been called, every accessor (getEnv, getBool,
\* getInt, getAllEnvironmentVariables, hasVariable and the typed getters) fails
\* with a not-initialized error.  Violated: the typed getters go through
\* _getEnv, which never calls _ensureInitialized.
C1_AccessBeforeInitFails ==
  (~everInitialized /\ ~everSetTest) =>
     /\ getEnvExc \in NotInitializedErrors
     /\ privateGetEnvExc \in NotInitializedErrors

\* C2: while a test environment m is set, every accessor yields m[k] for each
\* key k that m and the loaded configuration share, whether or not
\* initialize() was called again.  Violated: getEnv, getAllEnvironmentVariables
\* and hasVariable read dotenv, which holds m only after initialize().
C2_TestEnvironmentOverrides ==
  ~testEnvironment.isNull =>
     \A k \in MapKeys(testEnvironment.map) \cap MapKeys(dotenvEnv) :
        /\ privateGetEnvExc = "none"
        /\ privateGetEnv(k, <<>>) = MapGet(testEnvironment.map, k)
        /\ getEnvExc = "none"
        /\ getEnv(k, <<>>) = MapGet(testEnvironment.map, k)
        /\ hasVariable(k)
        /\ MapGet(getAllEnvironmentVariables, k) = MapGet(testEnvironment.map, k)

\* C3: the values a reader obtains after setTestEnvironment(m) has returned
\* all come from one snapshot, m or the configuration loaded before, never
\* from a mixture.  Violated: typed getters answer from m while getEnv still
\* answers from dotenv.
C3_ReadsFromOneSnapshot ==
  ~testEnvironment.isNull =>
     ~ \E r1 \in reads, r2 \in reads :
          /\ r1.val = MapGetOr(testEnvironment.map, r1.key, r1.def)
          /\ r1.val # MapGetOr(prevConfig, r1.key, r1.def)
          /\ r2.val = MapGetOr(prevConfig, r2.key, r2.def)
          /\ r2.val # MapGetOr(testEnvironment.map, r2.key, r2.def)

\* C4: getAllSecureValues returns the entries of the configuration key by key,
\* the value of every key isSensitiveKey classifies sensitive replaced by
\* '***REDACTED***' and every other value unchanged.
C4_RedactedDump ==
  getEnvExc = "none" =>
     LET secureValues == getAllSecureValues
         envValues == getAllEnvironmentVariables
     IN  /\ Len(secureValues) = Len(envValues)
         /\ MapKeys(secureValues) = MapKeys(envValues)
         /\ \A k \in MapKeys(envValues) :
              MapGet(secureValues, k) =
                IF isSensitiveKey(k) THEN <<"*","*","*","R","E","D","A","C","T","E","D","*","*","*">>
                ELSE MapGet(envValues, k)

\* a dump that redacts one value and passes another through
C4_Witness ==
  /\ getEnvExc = "none"
  /\ \E k1 \in MapKeys(dotenvEnv), k2 \in MapKeys(dotenvEnv) :
       /\ isSensitiveKey(k1) /\ isNotEmpty(MapGet(dotenvEnv, k1))
       /\ MapGet(getAllSecureValues, k1) = <<"*","*","*","R","E","D","A","C","T","E","D","*","*","*">>
       /\ ~isSensitiveKey(k2) /\ isNotEmpty(MapGet(dotenvEnv, k2))
       /\ MapGet(getAllSecureValues, k2) = MapGet(dotenvEnv, k2)

\* the values a secret may take in a variant of a configuration
SecretValues ==
  {<<"s","k","_","l","i","v","e">>, <<"s","k","_","t","e","s","t">>, <<"p","a","s","s">>, <<>>}

\* the configurations with the keys of env that differ from env at most in
\* the values of the keys isSensitiveKey classifies sensitive
SecretVariants(env) ==
  LET sensitive == {i \in DOMAIN env : isSensitiveKey(env[i][1])}
  IN  { [i \in DOMAIN env |->
           <<env[i][1], IF i \in sensitive THEN f[i] ELSE env[i][2]>>]
        : f \in [sensitive -> SecretValues] }

\* C5: generateSecureHash and generateEnvironmentHash hash the same string and
\* return the same digest for the loaded configuration and for every
\* configuration that differs from it only in the values of sensitive keys.
C5_HashIgnoresSecrets ==
  getEnvExc = "none" =>
     \A other \in SecretVariants(getAllEnvironmentVariables) :
        /\ cleanValues(other) = cleanValues(getAllEnvironmentVariables)
        /\ sha256(cleanValues(other)) = generateSecureHash
        /\ envString(other) = envString(dotenvEnv)
        /\ sha256(envString(other)) = generateEnvironmentHash

\* a hashed configuration that holds a secret and a public entry
C5_Witness ==
  /\ getEnvExc = "none"
  /\ Cardinality(SecretVariants(getAllEnvironmentVariables)) > 1
  /\ \E i \in DOMAIN dotenvEnv : ~isSensitiveKey(dotenvEnv[i][1])
  /\ isNotEmpty(cleanValues(getAllEnvironmentVariables))

C7_PolicyTable ==
  privateGetEnvExc = "none" =>
     /\ (isDevelopment \/ isTest) =>
          getCurrentPolicy =
            [allowDebugLogging |-> TRUE, allowDemoCredentials |-> TRUE,
             requireHttps |-> FALSE, sessionTimeoutHours |-> 24,
             maxLoginAttempts |-> 10, enableStrictValidation |-> FALSE]
     /\ isStaging =>
          getCurrentPolicy =
            [allowDebugLogging |-> FALSE, allowDemoCredentials |-> TRUE,
             requireHttps |-> TRUE, sessionTimeoutHours |-> 8,
             maxLoginAttempts |-> 5, enableStrictValidation |-> TRUE]
     /\ isProduction =>
          getCurrentPolicy =
            [allowDebugLogging |-> FALSE, allowDemoCredentials |-> FALSE,
             requireHttps |-> TRUE, sessionTimeoutHours |-> 1,
             maxLoginAttempts |-> 3, enableStrictValidation |-> TRUE]

\* the policy resolved for the test environment, which has no class of its own
C7_Witness ==
  /\ privateGetEnvExc = "none"
  /\ isTest
  /\ getCurrentPolicy.maxLoginAttempts = 10

\* the four members of the Environment the guide names
EnvironmentNames ==
  {development, staging, production, test}

\* the value configured for ENVIRONMENT, 'development' when the key is absent
ConfiguredEnvironment ==
  MapGetOr(ActiveConfig, ENVIRONMENT, development)

\* how many of isDevelopment, isStaging, isProduction, isTest are true
TrueEnvironmentFlags ==
  Cardinality({i \in 1..4 : <<isDevelopment, isStaging, isProduction, isTest>>[i]})

SomeErrorContains(text) ==
  \E i \in DOMAIN validate.errors : contains(validate.errors[i], text)

\* C8 as claimed: environment detection ignores letter case: a value equal to
\* 'production' up to case makes isProduction true, resolves the production
\* policy and applies the production-only checks; likewise for the other
\* three members.  Violated: the comparison is exact.
C8_DetectionIgnoresCase ==
  privateGetEnvExc = "none" =>
     /\ toLowerCase(ConfiguredEnvironment) = production =>
          /\ isProduction
          /\ getCurrentPolicy = ProductionSecurityPolicy
          /\ isDebug => listContains(securityErrors,
                          <<"D","e","b","u","g"," ","m","o","d","e"," ","s","h","o","u","l","d"," ","b","e"," ","d","i","s","a","b","l","e","d"," ","i","n"," ","p","r","o","d","u","c","t","i","o","n">>)
     /\ toLowerCase(ConfiguredEnvironment) = staging =>
          isStaging /\ getCurrentPolicy = StagingSecurityPolicy
     /\ toLowerCase(ConfiguredEnvironment) = development => isDevelopment
     /\ toLowerCase(ConfiguredEnvironment) = test => isTest

\* C8 as amended: environment detection is exact: isProduction, isStaging,
\* isDevelopment and isTest hold for the lower-case names only; a value that
\* differs from a name in letter case is not that environment, resolves the
\* development policy and gets none of the production-only checks.
C8_DetectionIsCaseSensitive ==
  privateGetEnvExc = "none" =>
     /\ isProduction <=> ConfiguredEnvironment = production
     /\ isStaging <=> ConfiguredEnvironment = staging
     /\ isDevelopment <=> ConfiguredEnvironment = development
     /\ isTest <=> ConfiguredEnvironment = test
     /\ (/\ toLowerCase(ConfiguredEnvironment) \in EnvironmentNames
         /\ ConfiguredEnvironment \notin EnvironmentNames)
        => /\ TrueEnvironmentFlags = 0
           /\ getCurrentPolicy = DevelopmentSecurityPolicy
           /\ securityErrors = <<>>

\* 'Production' with debug mode on: not production, no production check
C8_Witness ==
  /\ privateGetEnvExc = "none"
  /\ ConfiguredEnvironment = <<"P","r","o","d","u","c","t","i","o","n">>
  /\ isDebug
  /\ ~isProduction
  /\ securityErrors = <<>>

\* C9 as claimed: for every value of ENVIRONMENT, currentEnvironment is one of
\* the four names, exactly one of isDevelopment, isStaging, isProduction and
\* isTest is true, and an absent or unrecognised value yields development.
\* Violated: the value is returned as configured.
C9_EnvironmentIsClosed ==
  privateGetEnvExc = "none" =>
     /\ currentEnvironment \in EnvironmentNames
     /\ TrueEnvironmentFlags = 1
     /\ (\/ ~containsKey(ActiveConfig, ENVIRONMENT)
         \/ ConfiguredEnvironment \notin EnvironmentNames)
        => currentEnvironment = development

\* C9 as amended: currentEnvironment is the configured value of ENVIRONMENT as
\* written (empty and unrecognised values included) and 'development' only
\* when the key is absent; at most one of the four flags is true, and one is
\* true exactly when the value is one of the four names.
C9_EnvironmentIsConfiguredValue ==
  privateGetEnvExc = "none" =>
     /\ ~containsKey(ActiveConfig, ENVIRONMENT) =>
          currentEnvironment = development /\ isDevelopment
     /\ containsKey(ActiveConfig, ENVIRONMENT) =>
          currentEnvironment = MapGet(ActiveConfig, ENVIRONMENT)
     /\ TrueEnvironmentFlags <= 1
     /\ TrueEnvironmentFlags = 1 <=> ConfiguredEnvironment \in EnvironmentNames

\* an unrecognised value, reported as it is, with no flag true
C9_Witness ==
  /\ privateGetEnvExc = "none"
  /\ containsKey(ActiveConfig, ENVIRONMENT)
  /\ currentEnvironment = <<"i","n","v","a","l","i","d">>
  /\ TrueEnvironmentFlags = 0

\* C10: for a production configuration, validate() reports an error containing
\* 'Debug mode' when IS_DEBUG is a true token and an error containing
\* 'Demo credentials' when DEMO_USERNAME or DEMO_PASSWORD is non-empty, and
\* isValid is false in either case.
C10_ProductionSecurityErrors ==
  (validateExc = "none" /\ ConfiguredEnvironment = production) =>
     /\ listContains(TrueTokens, toLowerCase(MapGetOr(ActiveConfig, IS_DEBUG, <<>>)))
          => SomeErrorContains(<<"D","e","b","u","g"," ","m","o","d","e">>) /\ ~validate.isValid
     /\ (\/ isNotEmpty(MapGetOr(ActiveConfig, DEMO_USERNAME, <<>>))
         \/ isNotEmpty(MapGetOr(ActiveConfig, DEMO_PASSWORD, <<>>)))
          => SomeErrorContains(<<"D","e","m","o"," ","c","r","e","d","e","n","t","i","a","l","s">>) /\ ~validate.isValid

\* a production configuration with debug mode on and a demo user: both errors
C10_Witness ==
  /\ validateExc = "none"
  /\ ConfiguredEnvironment = production
  /\ MapGetOr(ActiveConfig, IS_DEBUG, <<>>) = <<"y","e","s">>
  /\ MapGetOr(ActiveConfig, DEMO_USERNAME, <<>>) = <<"u","s","e","r">>
  /\ SomeErrorContains(<<"D","e","b","u","g"," ","m","o","d","e">>)
  /\ SomeErrorContains(<<"D","e","m","o"," ","c","r","e","d","e","n","t","i","a","l","s">>)
  /\ ~validate.isValid

\* C11: every ValidationResult, the one validate() returns and the one each
\* rule returns, has isValid true exactly when its errors list is empty.
\* Violated: a rule whose key is empty or absent returns isValid false with
\* no error.
C11_ValidIffNoErrors ==
  validateExc = "none" =>
     /\ validate.isValid <=> Len(validate.errors) = 0
     /\ \A i \in DOMAIN validationRules :
          validationRules[i].isValid <=> Len(validationRules[i].errors) = 0

\* C12: once initialize() has succeeded or a test environment is set,
\* validate() returns a ValidationResult and raises nothing.  Violated: after
\* setTestEnvironment() with no load of dotenv, getEnv raises.
C12_ValidateNeverRaises ==
  (isInitialized \/ ~testEnvironment.isNull) => validateExc = "none"

\* C13: validate() never short-circuits: its errors are the errors of the
\* nine rules, each taken on its own, in the order of _validationRules,
\* followed by the errors of the security checks.
C13_ErrorsOfAllRulesInOrder ==
  validateExc = "none" =>
     validate.errors =
          RequiredKeyRule(ENVIRONMENT).errors
       \o EnumRule(ENVIRONMENT, <<development, staging, production, test>>).errors
       \o RequiredKeyRule(API_BASE_URL).errors
       \o UrlFormatRule(API_BASE_URL).errors
       \o PositiveIntegerRule(REQUEST_TIMEOUT_SECONDS).errors
       \o BooleanRule(IS_DEBUG).errors
       \o BooleanRule(ENABLE_LOGGING).errors
       \o BooleanRule(ENABLE_WISHLIST).errors
       \o BooleanRule(ENABLE_CART).errors
       \o securityErrors

\* an unknown environment and a malformed URL, both reported, in that order
C13_Witness ==
  /\ validateExc = "none"
  /\ Len(EnumRule(ENVIRONMENT, <<development, staging, production, test>>).errors) = 1
  /\ Len(UrlFormatRule(API_BASE_URL).errors) = 1
  /\ Len(validate.errors) >= 2
  /\ validate.errors[1] =
       EnumRule(ENVIRONMENT, <<development, staging, production, test>>).errors[1]
  /\ validate.errors[2] = UrlFormatRule(API_BASE_URL).errors[1]

\* an absolute URL with scheme http or https and a non-empty host
IsAbsoluteHttpUrl(value) ==
  LET uri == uriParse(value)
  IN  /\ ~uri.throws
      /\ uri.hasScheme
      /\ uri.scheme \in {<<"h","t","t","p">>, <<"h","t","t","p","s">>}
      /\ isNotEmpty(uri.host)

\* C14: when setTestEnvironment installs a configuration whose API_BASE_URL is
\* non-empty and no absolute http/https URL with a host, a validate() called
\* directly afterwards returns isValid false with an error that names
\* API_BASE_URL and contains 'Invalid URL format'.  Violated: the rules read
\* dotenv, which setTestEnvironment does not touch.
C14_InvalidUrlReportedAfterSetTest ==
  [][(/\ ~testEnvironment'.isNull
      /\ testEnvironment' # testEnvironment
      /\ isNotEmpty(MapGetOr(testEnvironment'.map, API_BASE_URL, <<>>))
      /\ ~IsAbsoluteHttpUrl(MapGetOr(testEnvironment'.map, API_BASE_URL, <<>>)))
     => /\ validateExc' = "none"
        /\ ~validate'.isValid
        /\ \E i \in DOMAIN validate'.errors :
             /\ contains(validate'.errors[i], <<"I","n","v","a","l","i","d"," ","U","R","L"," ","f","o","r","m","a","t">>)
             /\ contains(validate'.errors[i], API_BASE_URL)]_vars

\* a non-empty string of decimal digits that is not zero
IsPositiveInteger(value) ==
  /\ isNotEmpty(value)
  /\ \A i \in DOMAIN value : value[i] \in SeqRange(Digits)
  /\ \E i \in DOMAIN value : value[i] # "0"

BooleanTokens ==
  {<<"t","r","u","e">>, <<"f","a","l","s","e">>, <<"1">>, <<"0">>, <<"y","e","s">>, <<"n","o">>, <<"o","n">>, <<"o","f","f">>}

BooleanFlags ==
  {IS_DEBUG, ENABLE_LOGGING, ENABLE_WISHLIST, ENABLE_CART}

\* every format rule of _validationRules is satisfied by the configuration c
FormatRulesSatisfied(c) ==
  /\ MapGetOr(c, ENVIRONMENT, <<>>) \in EnvironmentNames
  /\ IsAbsoluteHttpUrl(MapGetOr(c, API_BASE_URL, <<>>))
  /\ IsPositiveInteger(MapGetOr(c, REQUEST_TIMEOUT_SECONDS, <<>>))
  /\ \A flag \in BooleanFlags :
       containsKey(c, flag) => toLowerCase(MapGet(c, flag)) \in BooleanTokens

SomeWarningContains(text) ==
  \E i \in DOMAIN validate.warnings : contains(validate.warnings[i], text)

\* C15: for a configuration whose ENVIRONMENT is development, staging or
\* test, whose API_BASE_URL is an absolute http/https URL with a host, whose
\* REQUEST_TIMEOUT_SECONDS is a positive integer and whose boolean flags are
\* absent or boolean tokens, validate() returns isValid true and no error.
C15_WellFormedConfigIsValid ==
  (/\ validateExc = "none"
   /\ ActiveConfig = dotenvEnv
   /\ FormatRulesSatisfied(dotenvEnv)
   /\ ConfiguredEnvironment # production)
  => validate.isValid /\ validate.errors = <<>>

\* a staging configuration over plain http with flags set, found valid
C15_Witness ==
  /\ validateExc = "none"
  /\ ActiveConfig = dotenvEnv
  /\ FormatRulesSatisfied(dotenvEnv)
  /\ ConfiguredEnvironment = staging
  /\ startsWith(baseUrl, <<"h","t","t","p",":","/","/">>)
  /\ containsKey(dotenvEnv, IS_DEBUG) /\ containsKey(dotenvEnv, ENABLE_LOGGING)
  /\ validate.isValid

\* C16 as claimed: outside production validate() adds no production-policy
\* finding: no debug-mode or demo-credential error and no HTTP-scheme,
\* session-timeout or logging warning.  Violated: the HTTP-scheme warning is
\* issued in every environment.
C16_NoPolicyFindingOutsideProduction ==
  (validateExc = "none" /\ ConfiguredEnvironment \in {development, staging, test}) =>
     /\ ~SomeErrorContains(<<"D","e","b","u","g"," ","m","o","d","e">>)
     /\ ~SomeErrorContains(<<"D","e","m","o"," ","c","r","e","d","e","n","t","i","a","l","s">>)
     /\ ~SomeWarningContains(<<"U","s","i","n","g"," ","H","T","T","P"," ","i","n","s","t","e","a","d"," ","o","f"," ","H","T","T","P","S">>)
     /\ ~SomeWarningContains(<<"S","e","s","s","i","o","n"," ","t","i","m","e","o","u","t">>)
     /\ ~SomeWarningContains(<<"V","e","r","b","o","s","e"," ","l","o","g","g","i","n","g">>)

\* C16 as amended: outside production validate() adds no debug-mode,
\* demo-credential or HTTPS-required error and no session-timeout or logging
\* warning; the HTTP-scheme warning is issued in every environment, exactly
\* when the base URL starts with 'http://' and does not contain 'localhost'.
C16_OnlyHttpWarningOutsideProduction ==
  (validateExc = "none" /\ ConfiguredEnvironment # production) =>
     /\ ~SomeErrorContains(<<"D","e","b","u","g"," ","m","o","d","e">>)
     /\ ~SomeErrorContains(<<"D","e","m","o"," ","c","r","e","d","e","n","t","i","a","l","s">>)
     /\ ~SomeErrorContains(<<"H","T","T","P","S"," ","s","h","o","u","l","d"," ","b","e"," ","r","e","q","u","i","r","e","d">>)
     /\ ~SomeWarningContains(<<"S","e","s","s","i","o","n"," ","t","i","m","e","o","u","t">>)
     /\ ~SomeWarningContains(<<"V","e","r","b","o","s","e"," ","l","o","g","g","i","n","g">>)
     /\ SomeWarningContains(<<"U","s","i","n","g"," ","H","T","T","P"," ","i","n","s","t","e","a","d"," ","o","f"," ","H","T","T","P","S">>)
          <=> (startsWith(baseUrl, <<"h","t","t","p",":","/","/">>) /\ ~contains(baseUrl, <<"l","o","c","a","l","h","o","s","t">>))

\* a development configuration over plain http, warned about the protocol
C16_Witness ==
  /\ validateExc = "none"
  /\ ConfiguredEnvironment = development
  /\ SomeWarningContains(<<"U","s","i","n","g"," ","H","T","T","P"," ","i","n","s","t","e","a","d"," ","o","f"," ","H","T","T","P","S">>)
  /\ validate.warnings = << <<"U","s","i","n","g"," ","H","T","T","P"," ","i","n","s","t","e","a","d"," ","o","f"," ","H","T","T","P","S"," ","f","o","r"," ","A","P","I"," ","c","o","m","m","u","n","i","c","a","t","i","o","n">> >>

\* a production configuration with debug mode switched off, no demo
\* credentials and every format rule satisfied, in force and loaded
CleanProductionConfig ==
  /\ validateExc = "none"
  /\ ActiveConfig = dotenvEnv
  /\ FormatRulesSatisfied(dotenvEnv)
  /\ ConfiguredEnvironment = production
  /\ toLowerCase(MapGetOr(ActiveConfig, IS_DEBUG, <<>>)) \in
       {<<"f","a","l","s","e">>, <<"0">>, <<"n","o">>, <<"o","f","f">>}
  /\ isEmpty(MapGetOr(ActiveConfig, DEMO_USERNAME, <<>>))
  /\ isEmpty(MapGetOr(ActiveConfig, DEMO_PASSWORD, <<>>))

\* REQUIRE_HTTPS is set to a true token
HttpsRequiredByConfig ==
  listContains(TrueTokens, toLowerCase(MapGetOr(ActiveConfig, REQUIRE_HTTPS, <<>>)))

\* C17 as claimed: in production transport security is advisory: a clean
\* production configuration is valid whatever the scheme of the base URL and
\* whatever REQUIRE_HTTPS is.  Violated: REQUIRE_HTTPS not true with a base
\* URL that does not contain 'localhost' is an error.
C17_TransportFindingsAreAdvisory ==
  CleanProductionConfig =>
     /\ validate.isValid
     /\ ~SomeErrorContains(<<"H","T","T","P","S">>)

\* C17 as amended: for a clean production configuration validate() reports
\* the error 'HTTPS should be required in production', and isValid false,
\* exactly when REQUIRE_HTTPS is not a true token and the base URL does not
\* contain 'localhost'; the scheme of the base URL alone yields a warning only.
C17_HttpsRequiredInProduction ==
  CleanProductionConfig =>
     LET url == MapGetOr(ActiveConfig, API_BASE_URL, <<"h","t","t","p","s",":","/","/","d","u","m","m","y","j","s","o","n",".","c","o","m">>)
     IN  /\ validate.errors =
              IF ~HttpsRequiredByConfig /\ ~contains(url, <<"l","o","c","a","l","h","o","s","t">>)
                THEN << <<"H","T","T","P","S"," ","s","h","o","u","l","d"," ","b","e"," ","r","e","q","u","i","r","e","d"," ","i","n"," ","p","r","o","d","u","c","t","i","o","n">> >>
                ELSE <<>>
         /\ validate.isValid <=> (HttpsRequiredByConfig \/ contains(url, <<"l","o","c","a","l","h","o","s","t">>))
         /\ SomeWarningContains(<<"U","s","i","n","g"," ","H","T","T","P"," ","i","n","s","t","e","a","d"," ","o","f"," ","H","T","T","P","S">>)
              <=> (startsWith(url, <<"h","t","t","p",":","/","/">>) /\ ~contains(url, <<"l","o","c","a","l","h","o","s","t">>))

\* clean production over https with REQUIRE_HTTPS=false: rejected
C17_Witness ==
  /\ CleanProductionConfig
  /\ MapGetOr(ActiveConfig, REQUIRE_HTTPS, <<>>) = <<"f","a","l","s","e">>
  /\ startsWith(baseUrl, <<"h","t","t","p","s",":","/","/">>)
  /\ ~validate.isValid
  /\ validate.errors = << <<"H","T","T","P","S"," ","s","h","o","u","l","d"," ","b","e"," ","r","e","q","u","i","r","e","d"," ","i","n"," ","p","r","o","d","u","c","t","i","o","n">> >>

\* C18 as claimed: the production debug check defaults to false: with IS_DEBUG
\* absent or empty validate() reports no debug-mode error.  Violated: isDebug
\* defaults to true.
C18_DebugCheckDefaultsToFalse ==
  (/\ validateExc = "none"
   /\ ConfiguredEnvironment = production
   /\ isEmpty(MapGetOr(ActiveConfig, IS_DEBUG, <<>>)))
  => ~SomeErrorContains(<<"D","e","b","u","g"," ","m","o","d","e">>)

\* C18 as amended: the production debug check defaults to true: validate()
\* reports the debug-mode error when IS_DEBUG is absent, empty or a true
\* token, and only then.
C18_DebugCheckDefaultsToTrue ==
  (validateExc = "none" /\ ConfiguredEnvironment = production) =>
     SomeErrorContains(<<"D","e","b","u","g"," ","m","o","d","e">>)
       <=> \/ isEmpty(MapGetOr(ActiveConfig, IS_DEBUG, <<>>))
           \/ listContains(TrueTokens, toLowerCase(MapGet(ActiveConfig, IS_DEBUG)))

\* production with no IS_DEBUG key: the debug-mode error is reported
C18_Witness ==
  /\ validateExc = "none"
  /\ ConfiguredEnvironment = production
  /\ ~containsKey(ActiveConfig, IS_DEBUG)
  /\ SomeErrorContains(<<"D","e","b","u","g"," ","m","o","d","e">>)
  /\ ~validate.isValid

\* the keys the accessors are asked for: the keys of the family and one
\* that no configuration holds
AccessKeys ==
  SeqRange(FamilyKeys) \cup {<<"N","O","N","_","E","X","I","S","T","E","N","T","_","K","E","Y">>}

StringDefaults ==
  {<<>>, <<"d","e","f","a","u","l","t">>}

\* the value of key in c when present and non-empty, else the default
NonEmptyOrDefault(c, key, defaultValue) ==
  IF containsKey(c, key) /\ isNotEmpty(MapGet(c, key)) THEN MapGet(c, key)
  ELSE defaultValue

\* C19 as claimed: the string accessors return the configured value when the
\* key is present and non-empty, and the default when it is absent or empty.
\* Violated: a key present with an empty value yields the empty string.
C19_EmptyValueYieldsDefault ==
  /\ getEnvExc = "none" =>
       \A key \in AccessKeys, d \in StringDefaults :
          getEnv(key, d) = NonEmptyOrDefault(dotenvEnv, key, d)
  /\ privateGetEnvExc = "none" =>
       /\ \A key \in AccessKeys, d \in StringDefaults :
            privateGetEnv(key, d) = NonEmptyOrDefault(ActiveConfig, key, d)
       /\ baseUrl = NonEmptyOrDefault(ActiveConfig, API_BASE_URL, <<"h","t","t","p","s",":","/","/","d","u","m","m","y","j","s","o","n",".","c","o","m">>)

\* C19 as amended: the string accessors return the configured value whenever
\* the key is present, the empty string included, and the default only when
\* the key is absent.
C19_PresentValueIsReturned ==
  /\ getEnvExc = "none" =>
       \A key \in AccessKeys, d \in StringDefaults :
          getEnv(key, d) = IF containsKey(dotenvEnv, key) THEN MapGet(dotenvEnv, key) ELSE d
  /\ privateGetEnvExc = "none" =>
       /\ \A key \in AccessKeys, d \in StringDefaults :
            privateGetEnv(key, d) =
              IF containsKey(ActiveConfig, key) THEN MapGet(ActiveConfig, key) ELSE d
       /\ baseUrl = IF containsKey(ActiveConfig, API_BASE_URL)
                      THEN MapGet(ActiveConfig, API_BASE_URL)
                      ELSE <<"h","t","t","p","s",":","/","/","d","u","m","m","y","j","s","o","n",".","c","o","m">>

\* API_BASE_URL present and empty: baseUrl is empty, not the default
C19_Witness ==
  /\ privateGetEnvExc = "none"
  /\ getEnvExc = "none"
  /\ containsKey(ActiveConfig, API_BASE_URL)
  /\ baseUrl = <<>>
  /\ getEnv(API_BASE_URL, <<"d","e","f","a","u","l","t">>) = <<>>
  /\ getEnv(<<"N","O","N","_","E","X","I","S","T","E","N","T","_","K","E","Y">>, <<"d","e","f","a","u","l","t">>) = <<"d","e","f","a","u","l","t">>

FalseTokens ==
  << <<"f","a","l","s","e">>, <<"0">>, <<"n","o">>, <<"o","f","f">> >>

\* C20 as claimed: the boolean accessors return true for a true token, false
\* for a false token (both ignoring case) and the default for an absent key
\* and for any other value.  Violated: a value that is no token yields false.
C20_UnknownValueYieldsDefault ==
  privateGetEnvExc = "none" =>
     \A key \in AccessKeys, d \in BOOLEAN :
        LET value == toLowerCase(MapGetOr(ActiveConfig, key, <<>>))
        IN  privateGetBool(key, d) =
              IF listContains(TrueTokens, value) THEN TRUE
              ELSE IF listContains(FalseTokens, value) THEN FALSE
              ELSE d

\* C20 as amended: the boolean accessors return true for a true token
\* ignoring case, the default for an absent or empty value, and false for
\* every other value, the false tokens and values such as 'maybe' alike.
C20_UnknownValueYieldsFalse ==
  /\ privateGetEnvExc = "none" =>
       \A key \in AccessKeys, d \in BOOLEAN :
          LET value == toLowerCase(MapGetOr(ActiveConfig, key, <<>>))
          IN  privateGetBool(key, d) =
                IF isEmpty(value) THEN d ELSE listContains(TrueTokens, value)
  /\ getEnvExc = "none" =>
       \A key \in AccessKeys, d \in BOOLEAN :
          LET value == toLowerCase(MapGetOr(dotenvEnv, key, <<>>))
          IN  getBool(key, d) =
                IF isEmpty(value) THEN d ELSE listContains(TrueTokens, value)

\* IS_DEBUG='maybe': isDebug, whose default is true, is false
C20_Witness ==
  /\ privateGetEnvExc = "none"
  /\ MapGetOr(ActiveConfig, IS_DEBUG, <<>>) = <<"m","a","y","b","e">>
  /\ ~isDebug

\* an optional sign followed by decimal digits
IsDecimalInteger(value) ==
  LET body == IF Len(value) > 0 /\ value[1] \in {"-", "+"} THEN Tail(value) ELSE value
  IN  Len(body) > 0 /\ \A i \in DOMAIN body : body[i] \in SeqRange(Digits)

\* the number a decimal integer denotes
DecimalValue(value) ==
  IF value[1] = "-" THEN 0 - digitsValue(Tail(value))
  ELSE IF value[1] = "+" THEN digitsValue(Tail(value))
  ELSE digitsValue(value)

\* an optional sign followed by 0x and hexadecimal digits
IsHexInteger(value) ==
  LET body == IF Len(value) > 0 /\ value[1] \in {"-", "+"} THEN Tail(value) ELSE value
  IN  /\ Len(body) > 2
      /\ body[1] = "0" /\ body[2] \in {"x", "X"}
      /\ \A i \in 3..Len(body) : toLowerCaseChar(body[i]) \in SeqRange(HexDigits)

\* the number a hexadecimal integer denotes
HexValue(value) ==
  IF value[1] = "-" THEN 0 - hexDigitsValue(SubSeq(value, 4, Len(value)))
  ELSE IF value[1] = "+" THEN hexDigitsValue(SubSeq(value, 4, Len(value)))
  ELSE hexDigitsValue(SubSeq(value, 3, Len(value)))

IntDefaults ==
  {0, 30}

\* C21 as claimed: the integer accessors return the parsed number when the
\* value is a decimal integer and exactly the default when the key is absent,
\* empty or no decimal integer.  Violated: int.tryParse reads a hexadecimal
\* literal such as '0x1F' too.
C21_NonDecimalYieldsDefault ==
  privateGetEnvExc = "none" =>
     \A key \in AccessKeys, d \in IntDefaults :
        LET value == MapGetOr(ActiveConfig, key, <<>>)
        IN  privateGetInt(key, d) =
              IF IsDecimalInteger(value) THEN DecimalValue(value) ELSE d

\* C21 as amended: the integer accessors return the parsed number when the
\* value is a decimal integer or a hexadecimal literal prefixed 0x, and
\* exactly the default when the key is absent, empty or neither of the two.
C21_UnparsableYieldsDefault ==
  /\ privateGetEnvExc = "none" =>
       /\ \A key \in AccessKeys, d \in IntDefaults :
            LET value == MapGetOr(ActiveConfig, key, <<>>)
            IN  privateGetInt(key, d) =
                  IF IsDecimalInteger(value) THEN DecimalValue(value)
                  ELSE IF IsHexInteger(value) THEN HexValue(value)
                  ELSE d
       /\ ~containsKey(ActiveConfig, REQUEST_TIMEOUT_SECONDS) => requestTimeoutSeconds = 30
  /\ getEnvExc = "none" =>
       \A key \in AccessKeys, d \in IntDefaults :
          LET value == MapGetOr(dotenvEnv, key, <<>>)
          IN  getInt(key, d) =
                IF IsDecimalInteger(value) THEN DecimalValue(value)
                ELSE IF IsHexInteger(value) THEN HexValue(value)
                ELSE d

\* REQUEST_TIMEOUT_SECONDS='0x1F' is read as 31; 'abc' elsewhere as the default
C21_Witness ==
  /\ privateGetEnvExc = "none"
  /\ MapGetOr(ActiveConfig, REQUEST_TIMEOUT_SECONDS, <<>>) = <<"0","x","1","F">>
  /\ requestTimeoutSeconds = 31
  /\ privateGetInt(ENVIRONMENT, 30) = 30

---------------------------------------------------------------------------
(* Sensitivity classifiers                                                 *)

\* C22 as claimed: every classifier that filters the dump and the hashes is
\* true exactly for the keys whose lower-cased form contains password,
\* secret, key, token or credential.  Violated: the classifier that filters
\* generateEnvironmentHash is true for AUTH_MODE as well.
C22_EveryClassifierUsesFivePatterns ==
  getEnvExc = "none" =>
     \A k \in MapKeys(dotenvEnv) :
        LET lowerKey == toLowerCase(k)
            five == \E p \in {<<"p","a","s","s","w","o","r","d">>, <<"s","e","c","r","e","t">>, <<"k","e","y">>, <<"t","o","k","e","n">>,
                              <<"c","r","e","d","e","n","t","i","a","l">>} : contains(lowerKey, p)
        IN  /\ isSensitiveKey(k) <=> five
            /\ EnvironmentService_isSensitiveKey(k) <=> five

\* C22 as amended: SecretsManager.isSensitiveKey, which filters the redacted
\* dump and generateSecureHash, is true exactly for the keys whose lower-cased
\* form contains password, secret, key, token or credential;
\* EnvironmentService.isSensitiveKey, which filters generateEnvironmentHash,
\* is true exactly for those keys and the keys containing auth, private or
\* confidential.
C22_ClassifierPerPatternList ==
  getEnvExc = "none" =>
     \A k \in MapKeys(dotenvEnv) :
        LET lowerKey == toLowerCase(k)
            five == \E p \in {<<"p","a","s","s","w","o","r","d">>, <<"s","e","c","r","e","t">>, <<"k","e","y">>, <<"t","o","k","e","n">>,
                              <<"c","r","e","d","e","n","t","i","a","l">>} : contains(lowerKey, p)
            more == \E p \in {<<"a","u","t","h">>, <<"p","r","i","v","a","t","e">>, <<"c","o","n","f","i","d","e","n","t","i","a","l">>} :
                       contains(lowerKey, p)
        IN  /\ isSensitiveKey(k) <=> five
            /\ EnvironmentService_isSensitiveKey(k) <=> (five \/ more)

\* AUTH_MODE is dumped in clear and hashed by generateSecureHash, and left
\* out of generateEnvironmentHash
C22_Witness ==
  /\ getEnvExc = "none"
  /\ containsKey(dotenvEnv, AUTH_MODE)
  /\ ~isSensitiveKey(AUTH_MODE)
  /\ EnvironmentService_isSensitiveKey(AUTH_MODE)
  /\ MapGet(getAllSecureValues, AUTH_MODE) = <<"b","a","s","i","c">>
  /\ cleanValues(getAllEnvironmentVariables) # envString(dotenvEnv)
  /\ \E k \in MapKeys(dotenvEnv) : isSensitiveKey(k)

---------------------------------------------------------------------------
(* Order of the hashed entries                                              *)

\* C23: the hash input and the digest of generateSecureHash and of
\* generateEnvironmentHash are the same for the loaded configuration and for
\* every configuration that holds the same key/value pairs with two entries
\* in exchanged positions.
C23_HashIndependentOfOrder ==
  getEnvExc = "none" =>
     LET env == getAllEnvironmentVariables
         exchanged(i, j) ==
           [n \in DOMAIN env |->
              IF n = i THEN env[j] ELSE IF n = j THEN env[i] ELSE env[n]]
     IN  \A i \in DOMAIN env, j \in DOMAIN env :
            /\ cleanValues(exchanged(i, j)) = cleanValues(env)
            /\ sha256(cleanValues(exchanged(i, j))) = generateSecureHash
            /\ envString(exchanged(i, j)) = envString(env)
            /\ sha256(envString(exchanged(i, j))) = generateEnvironmentHash

---------------------------------------------------------------------------
(* Format rules                                                            *)

\* C24: validate() holds the error of a format rule (EnumRule of ENVIRONMENT,
\* UrlFormatRule of API_BASE_URL, PositiveIntegerRule of
\* REQUEST_TIMEOUT_SECONDS, BooleanRule of the four flags) exactly when the
\* rule's key is present with a non-empty value that violates the format; a
\* rule whose key is absent or empty adds nothing, so that the errors are
\* those of the missing required keys, of the violated formats and of the
\* security checks, and isValid says whether there is any.
C24_FormatRuleErrors ==
  validateExc = "none" =>
     LET result    == validate
         errs      == SeqRange(result.errors)
         env       == MapGetOr(dotenvEnv, ENVIRONMENT, <<>>)
         url       == MapGetOr(dotenvEnv, API_BASE_URL, <<>>)
         timeout   == MapGetOr(dotenvEnv, REQUEST_TIMEOUT_SECONDS, <<>>)
         badEnv    == isNotEmpty(env) /\ env \notin EnvironmentNames
         badUrl    == isNotEmpty(url) /\ ~IsAbsoluteHttpUrl(url)
         badInt    == /\ isNotEmpty(timeout)
                      /\ ~(IsDecimalInteger(timeout) /\ DecimalValue(timeout) > 0)
                      /\ ~(IsHexInteger(timeout) /\ HexValue(timeout) > 0)
         badFlags  == {flag \in BooleanFlags :
                         /\ isNotEmpty(MapGetOr(dotenvEnv, flag, <<>>))
                         /\ toLowerCase(MapGetOr(dotenvEnv, flag, <<>>))
                              \notin BooleanTokens}
         missing   == {key \in {ENVIRONMENT, API_BASE_URL} :
                         isEmpty(MapGetOr(dotenvEnv, key, <<>>))}
     IN  /\ (ENVIRONMENT \o <<" ","m","u","s","t"," ","b","e"," ","o","n","e"," ","o","f",":"," ","d","e","v","e","l","o","p","m","e","n","t",","," ","s","t","a","g","i","n","g",","," ","p","r","o","d","u","c","t","i","o","n",","," ","t","e","s","t","."," ","G","o","t",":"," ">>
                \o env) \in errs <=> badEnv
         /\ (<<"I","n","v","a","l","i","d"," ","U","R","L"," ","f","o","r","m","a","t"," ","f","o","r"," ","A","P","I","_","B","A","S","E","_","U","R","L",":"," ">> \o url) \in errs <=> badUrl
         /\ (REQUEST_TIMEOUT_SECONDS \o <<" ","m","u","s","t"," ","b","e"," ","a"," ","p","o","s","i","t","i","v","e"," ","i","n","t","e","g","e","r","."," ","G","o","t",":"," ">>
                \o timeout) \in errs <=> badInt
         /\ \A flag \in BooleanFlags :
              (flag \o <<" ","m","u","s","t"," ","b","e"," ","a"," ","b","o","o","l","e","a","n"," ","v","a","l","u","e","."," ","G","o","t",":"," ">>
                 \o MapGetOr(dotenvEnv, flag, <<>>)) \in errs <=> flag \in badFlags
         /\ Len(result.errors) =
              Cardinality(missing) + Cardinality(badFlags) + Len(securityErrors)
              + (IF badEnv THEN 1 ELSE 0) + (IF badUrl THEN 1 ELSE 0)
              + (IF badInt THEN 1 ELSE 0)
         /\ result.isValid <=> result.errors = <<>>

\* REQUEST_TIMEOUT_SECONDS='0' is reported, an empty API_BASE_URL adds no
\* format error
C24_Witness ==
  /\ validateExc = "none"
  /\ MapGetOr(dotenvEnv, REQUEST_TIMEOUT_SECONDS, <<>>) = <<"0">>
  /\ SomeErrorContains(<<"m","u","s","t"," ","b","e"," ","a"," ","p","o","s","i","t","i","v","e"," ","i","n","t","e","g","e","r","."," ","G","o","t",":"," ","0">>)
  /\ containsKey(dotenvEnv, API_BASE_URL)
  /\ isEmpty(MapGet(dotenvEnv, API_BASE_URL))
  /\ ~SomeErrorContains(<<"I","n","v","a","l","i","d"," ","U","R","L"," ","f","o","r","m","a","t">>)
  /\ ~containsKey(dotenvEnv, IS_DEBUG)
  /\ ~SomeErrorContains(<<"m","u","s","t"," ","b","e"," ","a"," ","b","o","o","l","e","a","n"," ","v","a","l","u","e">>)

---------------------------------------------------------------------------
(* initialize(): sources                                                    *)

\* C25: when an initialize() that reads a file completes with no test
\* environment set and the file it named does not exist, it succeeds with the
\* values of .env.example if that file exists (getEnv then returns them), and
\* otherwise raises EnvironmentInitializationException and leaves the service
\* uninitialized, with getEnv raising.
C25_SourceFallback ==
  [][(/\ pending.pc = "awaiting"
      /\ pending'.pc = "idle"
      /\ ~pending.useTest
      /\ testEnvironment.isNull
      /\ ~files[pending.fileToLoad].exists)
     => IF files[".env.example"].exists
          THEN /\ initResult' = "initialized"
               /\ isInitialized'
               /\ getEnvExc' = "none"
               /\ getAllEnvironmentVariables' = files[".env.example"].content
               /\ \A key \in {ENVIRONMENT, API_BASE_URL, <<"N","O","N","_","E","X","I","S","T","E","N","T","_","K","E","Y">>} :
                    getEnv(key, <<"d","e","f","a","u","l","t">>)'
                      = MapGetOr(files[".env.example"].content, key, <<"d","e","f","a","u","l","t">>)
          ELSE /\ initResult' = "EnvironmentInitializationException"
               /\ ~isInitialized'
               /\ getEnvExc' # "none"]_vars

\* initialize() has loaded .env.example in place of a missing file
C25_Witness ==
  /\ initResult = "initialized"
  /\ isInitialized
  /\ testEnvironment.isNull /\ ~everSetTest
  /\ ~files[".env"].exists /\ ~files[".env.production"].exists
  /\ files[".env.example"].exists
  /\ dotenvEnv = files[".env.example"].content
  /\ getEnv(API_BASE_URL, <<>>) = <<"h","t","t","p","s",":","/","/","d","u","m","m","y","j","s","o","n",".","c","o","m">>

---------------------------------------------------------------------------
(* initialize(): required variables                                         *)

\* C26 as claimed: initialize() raises only when no configuration source is
\* available; whatever the loaded content, it completes and leaves the
\* problems to validate().  Violated: a loaded content without ENVIRONMENT,
\* API_BASE_URL or REQUEST_TIMEOUT_SECONDS makes initialize() raise.
C26_InitializeRaisesOnlyWithoutSource ==
  [][(/\ pending.pc = "awaiting"
      /\ pending'.pc = "idle"
      /\ (pending.useTest \/ files[loadedFile(pending.fileToLoad)].exists))
     => /\ initResult' = "initialized"
        /\ isInitialized'
        /\ validateExc' = "none"]_vars

\* C26 as amended: initialize() raises EnvironmentInitializationException
\* when no source is available and when the loaded content lacks one of
\* ENVIRONMENT, API_BASE_URL, REQUEST_TIMEOUT_SECONDS or holds it empty; for
\* every other loaded content it completes, and validate() then returns a
\* result.
C26_InitializeRaisesOnMissingRequired ==
  [][(/\ pending.pc = "awaiting"
      /\ pending'.pc = "idle")
     => LET available == pending.useTest
                           \/ files[loadedFile(pending.fileToLoad)].exists
            missing   == {k \in {ENVIRONMENT, API_BASE_URL, REQUEST_TIMEOUT_SECONDS} :
                            isEmpty(MapGetOr(dotenvEnv', k, <<>>))}
        IN  IF ~available \/ missing # {}
              THEN /\ initResult' = "EnvironmentInitializationException"
                   /\ isInitialized' = isInitialized
              ELSE /\ initResult' = "initialized"
                   /\ isInitialized'
                   /\ validateExc' = "none"]_vars

\* initialize() has raised on a loaded content whose ENVIRONMENT is empty
C26_Witness ==
  /\ pending.pc = "idle"
  /\ initResult = "EnvironmentInitializationException"
  /\ dotenvLoaded
  /\ ~isInitialized
  /\ containsKey(dotenvEnv, ENVIRONMENT)
  /\ isEmpty(MapGet(dotenvEnv, ENVIRONMENT))
  /\ isNotEmpty(MapGetOr(dotenvEnv, API_BASE_URL, <<>>))
  /\ isNotEmpty(MapGetOr(dotenvEnv, REQUEST_TIMEOUT_SECONDS, <<>>))

---------------------------------------------------------------------------
(* main(): start-up ordering                                                *)

---------------------------------------------------------------------------
(* initialize(): repeated calls                                             *)

\* C28: while the service is initialized with no test environment set, a
\* call of initialize(), whatever its fileName, returns at once: it leaves
\* the loaded configuration, the initialized flag and the test environment
\* as they are and starts no load.
C28_InitializeIsNoOpOnceInitialized ==
  [][(/\ isInitialized
      /\ testEnvironment.isNull
      /\ pending.pc = "idle"
      /\ <<pending, initResult>>' # <<pending, initResult>>)
     => /\ initResult' = "returned"
        /\ UNCHANGED <<pending, dotenvEnv, dotenvLoaded, isInitialized,
                       testEnvironment, files>>
        /\ getAllEnvironmentVariables' = getAllEnvironmentVariables]_vars

\* a second initialize() has returned at once on the configuration of
\* .env.production
C28_Witness ==
  /\ initResult = "returned"
  /\ isInitialized
  /\ testEnvironment.isNull
  /\ ~everSetTest
  /\ pending.pc = "idle"
  /\ dotenvEnv = ProdFile

---------------------------------------------------------------------------
(* initialize(): failure                                                    *)

\* C29: when an initialize() raises, the configuration the accessors see is
\* the one they saw before the call (the same map in dotenv, the same answers
\* and the same exceptions of the typed getters and of the public accessors),
\* and the call does not set the initialized flag.
C29_FailedInitializeIsAtomic ==
  [][(/\ pending.pc = "awaiting"
      /\ pending'.pc = "idle"
      /\ initResult' = "EnvironmentInitializationException")
     => /\ isInitialized' => isInitialized
        /\ dotenvEnv' = dotenvEnv
        /\ privateGetEnvExc' = privateGetEnvExc
        /\ getEnvExc' = getEnvExc
        /\ ActiveConfig' = ActiveConfig]_vars

---------------------------------------------------------------------------
(* clearTestEnvironment                                                     *)

\* C30: when clearTestEnvironment() returns (the step that takes the test
\* environment away or resets the initialized flag), every accessor raises a
\* not-initialized error: the typed getters (currentEnvironment, baseUrl,
\* ...) as well as getEnv and the other public accessors, so that none of
\* them answers with a value of the cleared test environment.
C30_ClearedServiceAnswersNothing ==
  [][(/\ testEnvironment'.isNull
      /\ ~isInitialized'
      /\ <<testEnvironment, isInitialized>>' # <<testEnvironment, isInitialized>>)
     => /\ getEnvExc' = "EnvironmentNotInitializedException"
        /\ privateGetEnvExc' \in NotInitializedErrors]_vars

=============================================================================
